---------------------------- MODULE Spec2Model ----------------------------
(***************************************************************************)
(* keyboard_handler: raw keyboard input on a background reader thread,     *)
(* decoded into (KeyCode, KeyModifiers) and dispatched to the callbacks    *)
(* registered for that pair.  The model follows the Unix implementation    *)
(* (KeyboardHandlerUnixImpl) and the shared base (KeyboardHandlerBase).    *)
(***************************************************************************)
EXTENDS Integers, Sequences, FiniteSets, TLC

(***************************************************************************)
(* Bounds of the model.                                                    *)
(***************************************************************************)
\* registrations the process performs (caps the process-wide handle counter)
MaxHandles == 2

\* the SIGINTs the process receives while on_signal is installed
MaxSignals == 1

(***************************************************************************)
(* Program constants.                                                      *)
(***************************************************************************)
invalid_handle == 0
BUFF_LEN == 10
ESC == 27

\* enum class KeyModifiers : uint32_t { NONE = 0, SHIFT = 1, ALT = 1 << 1, CTRL = 1 << 2 }
NONE == 0
SHIFT == 1
ALT == 2
CTRL == 4

\* enum class KeyCode, in declaration order (operator++ walks this order)
KeyCodeEnum ==
  << "UNKNOWN", "EXCLAMATION_MARK", "QUOTATION_MARK", "HASHTAG_SIGN", "DOLLAR_SIGN",
     "PERCENT_SIGN", "AMPERSAND", "APOSTROPHE", "OPENING_PARENTHESIS",
     "CLOSING_PARENTHESIS", "STAR", "PLUS", "COMMA", "MINUS", "DOT", "RIGHT_SLASH",
     "NUMBER_0", "NUMBER_1", "NUMBER_2", "NUMBER_3", "NUMBER_4", "NUMBER_5",
     "NUMBER_6", "NUMBER_7", "NUMBER_8", "NUMBER_9", "COLON", "SEMICOLON",
     "LEFT_ANGLE_BRACKET", "EQUAL_SIGN", "RIGHT_ANGLE_BRACKET", "QUESTION_MARK", "AT",
     "LEFT_SQUARE_BRACKET", "BACK_SLASH", "RIGHT_SQUARE_BRACKET", "CARET",
     "UNDERSCORE_SIGN", "GRAVE_ACCENT_SIGN",
     "A", "B", "C", "D", "E", "F", "G", "H", "I", "J", "K", "L", "M", "N", "O", "P",
     "Q", "R", "S", "T", "U", "V", "W", "X", "Y", "Z",
     "LEFT_CURLY_BRACKET", "VERTICAL_BAR", "RIGHT_CURLY_BRACKET", "TILDA",
     "CURSOR_UP", "CURSOR_DOWN", "CURSOR_LEFT", "CURSOR_RIGHT", "ESCAPE", "SPACE",
     "ENTER", "BACK_SPACE", "DELETE_KEY", "END", "PG_DOWN", "PG_UP", "HOME", "INSERT",
     "F1", "F2", "F3", "F4", "F5", "F6", "F7", "F8", "F9", "F10", "F11", "F12",
     "END_OF_KEY_CODE_ENUM" >>

KeyCode == { KeyCodeEnum[i] : i \in 1..Len(KeyCodeEnum) }

(***************************************************************************)
(* KeyModifiers operators.  A modifier mask is a number 0..7.              *)
(***************************************************************************)
Bit(x, b) == (x \div b) % 2

\* an operator| that drops its right operand
ModOr_left(left, right) == left

\* operator|(KeyModifiers, KeyModifiers): bitwise OR of the underlying values
ModOr(left, right) ==
  LET or(b) == IF Bit(left, b) = 1 \/ Bit(right, b) = 1 THEN b ELSE 0
  IN  or(1) + or(2) + or(4)

\* an operator&& that tests whether every bit of right is set in left
ModAnd_subset(left, right) == \A b \in {1, 2, 4} : Bit(right, b) = 1 => Bit(left, b) = 1

\* operator&&(KeyModifiers, KeyModifiers): the bitwise AND converted to bool
ModAnd(left, right) ==
  \E b \in {1, 2, 4} : Bit(left, b) = 1 /\ Bit(right, b) = 1

(***************************************************************************)
(* Sequence table.  The static table DEFAULT_STATIC_KEY_MAP is data of the *)
(* repository that the decoder consumes: pairs (inner_code,                *)
(* terminal_sequence), the sequence a NUL-terminated byte string.          *)
(***************************************************************************)
Printable ==
  << <<"EXCLAMATION_MARK", 33>>, <<"QUOTATION_MARK", 34>>, <<"HASHTAG_SIGN", 35>>,
     <<"DOLLAR_SIGN", 36>>, <<"PERCENT_SIGN", 37>>, <<"AMPERSAND", 38>>,
     <<"APOSTROPHE", 39>>, <<"OPENING_PARENTHESIS", 40>>,
     <<"CLOSING_PARENTHESIS", 41>>, <<"STAR", 42>>, <<"PLUS", 43>>, <<"COMMA", 44>>,
     <<"MINUS", 45>>, <<"DOT", 46>>, <<"RIGHT_SLASH", 47>>,
     <<"NUMBER_0", 48>>, <<"NUMBER_1", 49>>, <<"NUMBER_2", 50>>, <<"NUMBER_3", 51>>,
     <<"NUMBER_4", 52>>, <<"NUMBER_5", 53>>, <<"NUMBER_6", 54>>, <<"NUMBER_7", 55>>,
     <<"NUMBER_8", 56>>, <<"NUMBER_9", 57>>,
     <<"COLON", 58>>, <<"SEMICOLON", 59>>, <<"LEFT_ANGLE_BRACKET", 60>>,
     <<"EQUAL_SIGN", 61>>, <<"RIGHT_ANGLE_BRACKET", 62>>, <<"QUESTION_MARK", 63>>,
     <<"AT", 64>>, <<"LEFT_SQUARE_BRACKET", 91>>, <<"BACK_SLASH", 92>>,
     <<"RIGHT_SQUARE_BRACKET", 93>>, <<"CARET", 94>>, <<"UNDERSCORE_SIGN", 95>>,
     <<"GRAVE_ACCENT_SIGN", 96>>,
     <<"A", 97>>, <<"B", 98>>, <<"C", 99>>, <<"D", 100>>, <<"E", 101>>, <<"F", 102>>,
     <<"G", 103>>, <<"H", 104>>, <<"I", 105>>, <<"J", 106>>, <<"K", 107>>,
     <<"L", 108>>, <<"M", 109>>, <<"N", 110>>, <<"O", 111>>, <<"P", 112>>,
     <<"Q", 113>>, <<"R", 114>>, <<"S", 115>>, <<"T", 116>>, <<"U", 117>>,
     <<"V", 118>>, <<"W", 119>>, <<"X", 120>>, <<"Y", 121>>, <<"Z", 122>>,
     <<"LEFT_CURLY_BRACKET", 123>>, <<"VERTICAL_BAR", 124>>,
     <<"RIGHT_CURLY_BRACKET", 125>>, <<"TILDA", 126>>,
     <<"SPACE", 32>>, <<"ENTER", 10>>, <<"BACK_SPACE", 127>>, <<"ESCAPE", 27>> >>

ControlSequences ==
  << <<"CURSOR_UP", <<27, 91, 65>> >>, <<"CURSOR_DOWN", <<27, 91, 66>> >>,
     <<"CURSOR_RIGHT", <<27, 91, 67>> >>, <<"CURSOR_LEFT", <<27, 91, 68>> >>,
     <<"DELETE_KEY", <<27, 91, 51, 126>> >>, <<"END", <<27, 91, 70>> >>,
     <<"PG_DOWN", <<27, 91, 54, 126>> >>, <<"PG_UP", <<27, 91, 53, 126>> >>,
     <<"HOME", <<27, 91, 72>> >>, <<"INSERT", <<27, 91, 50, 126>> >>,
     <<"F1", <<27, 79, 80>> >>, <<"F2", <<27, 79, 81>> >>,
     <<"F3", <<27, 79, 82>> >>, <<"F4", <<27, 79, 83>> >>,
     <<"F5", <<27, 91, 49, 53, 126>> >>, <<"F6", <<27, 91, 49, 55, 126>> >>,
     <<"F7", <<27, 91, 49, 56, 126>> >>, <<"F8", <<27, 91, 49, 57, 126>> >>,
     <<"F9", <<27, 91, 50, 48, 126>> >>, <<"F10", <<27, 91, 50, 49, 126>> >>,
     <<"F11", <<27, 91, 50, 51, 126>> >>, <<"F12", <<27, 91, 50, 52, 126>> >> >>

\* KeyMap entries {inner_code, terminal_sequence}
DEFAULT_STATIC_KEY_MAP ==
  [ i \in 1..Len(Printable) |->
      [inner_code |-> Printable[i][1], terminal_sequence |-> << Printable[i][2] >>] ]
  \o
  [ i \in 1..Len(ControlSequences) |->
      [inner_code |-> ControlSequences[i][1],
       terminal_sequence |-> ControlSequences[i][2]] ]

STATIC_KEY_MAP_LENGTH == Len(DEFAULT_STATIC_KEY_MAP)

\* key_codes_map_ after the constructor's emplace loop: an unordered_map from the
\* sequence to the code; emplace keeps the first entry of a repeated sequence
key_codes_map_ ==
  LET seqs == { DEFAULT_STATIC_KEY_MAP[i].terminal_sequence :
                  i \in 1..STATIC_KEY_MAP_LENGTH }
      first(s) == CHOOSE i \in 1..STATIC_KEY_MAP_LENGTH :
                    /\ DEFAULT_STATIC_KEY_MAP[i].terminal_sequence = s
                    /\ \A j \in 1..(i - 1) :
                         DEFAULT_STATIC_KEY_MAP[j].terminal_sequence # s
  IN  [ s \in seqs |-> DEFAULT_STATIC_KEY_MAP[first(s)].inner_code ]


(***************************************************************************)
(* Decoder: KeyboardHandlerUnixImpl::parse_input.  buff is the reader's    *)
(* buffer (BUFF_LEN bytes, each 0..255), read_bytes what read() returned.  *)
(***************************************************************************)
Min(a, b) == IF a < b THEN a ELSE b

\* std::string(const char *): the bytes before the first NUL
CStr(buff) ==
  LET nul == { i \in 1..Len(buff) : buff[i] = 0 }
      n   == IF nul = {} THEN Len(buff)
             ELSE (CHOOSE i \in nul : \A j \in nul : i <= j) - 1
  IN  SubSeq(buff, 1, n)

\* buff_to_search[0]: the first char, the terminating NUL of an empty string
Front(str) == IF str = <<>> THEN 0 ELSE str[1]

\* a cast that makes every char negative
SignedChar_negative(c) == -1

\* static_cast<signed char>(c)
SignedChar(c) == IF c >= 128 THEN c - 256 ELSE c

\* a lookup that finds nothing
Find_nothing(pressed_key_code, buff_to_search) == pressed_key_code

\* key_codes_map_.find(buff_to_search), UNKNOWN standing for end()
Find(pressed_key_code, buff_to_search) ==
  IF buff_to_search \in DOMAIN key_codes_map_
    THEN key_codes_map_[buff_to_search]
    ELSE pressed_key_code

\* a decoder that takes a leading escape byte for ALT whatever the length
alt_prefix_any_length(buff, read_bytes) == buff[1] = ESC

\* a decoder that never takes the escape byte for ALT
alt_prefix_never(buff, read_bytes) == FALSE

\* if (read_bytes == 2 && buff[0] == 27): ALT followed by one char
alt_prefix(buff, read_bytes) == read_bytes = 2 /\ buff[1] = ESC

parse_input(buff, read_bytes) ==
  LET alt   == alt_prefix(buff, read_bytes)
      mods1 == IF alt THEN ALT ELSE NONE
      bts1  == IF alt THEN << buff[2] >> ELSE CStr(buff)
      bytes_in_keycode == IF alt THEN 1 ELSE read_bytes
      shift == bytes_in_keycode = 1 /\ Front(bts1) >= 65 /\ Front(bts1) <= 90
      bts2  == IF shift THEN << Front(bts1) + 32 >> ELSE bts1
      mods2 == IF shift THEN ModOr(mods1, SHIFT) ELSE mods1
      code2 == Find("UNKNOWN", bts2)
      ctrl  == /\ code2 = "UNKNOWN"
               /\ bytes_in_keycode = 1
               /\ SignedChar(Front(bts2)) >= 0
               /\ Front(bts2) <= 26
      bts3  == << Front(bts2) + 96 >>
      mods3 == IF ctrl THEN ModOr(mods2, CTRL) ELSE mods2
      code3 == IF ctrl THEN Find(code2, bts3) ELSE code2
  IN  << code3, mods3 >>

\* KeyboardHandlerUnixImpl::get_terminal_sequence: the sequences the walk over
\* key_codes_map_ can return for key_code (the first one met), or the empty string
get_terminal_sequence(key_code) ==
  LET hits == { s \in DOMAIN key_codes_map_ : key_codes_map_[s] = key_code }
  IN  IF hits = {} THEN { <<>> } ELSE hits

\* the reader's buffer after read() stored chunk in it and the loop wrote the NUL
\* at buff[min(BUFF_LEN - 1, static_cast<size_t>(read_bytes))]
StoreChunk(buff, chunk, read_bytes) ==
  LET nulAt == IF read_bytes < 0 THEN BUFF_LEN ELSE Min(BUFF_LEN - 1, read_bytes) + 1
  IN  [ i \in 1..BUFF_LEN |->
          IF i = nulAt THEN 0
          ELSE IF i <= Len(chunk) THEN chunk[i]
          ELSE buff[i] ]

ZeroBuff == [ i \in 1..BUFF_LEN |-> 0 ]

(***************************************************************************)
(* Process state.                                                          *)
(***************************************************************************)
\* the handler instances the process constructs (each at most once)
Handlers == {1, 2}

\* the callbacks the application passes: nullptr and a callable
NULLCB == "nullptr"
Callbacks == {"f"}

\* callbacks of another kind: one that calls add_key_press_callback or
\* delete_key_press_callback on the handler that invokes it, and one that throws
Reentrant == {"calls_add", "calls_add_nullptr", "calls_delete"}
Throwing == {"throws"}

\* the (key_code, key_modifiers) the application registers under, and the chunks
\* the device delivers: 'A', decoded as (A, SHIFT), 'a', decoded as (A, NONE), and
\* 'b', decoded as (B, NONE)
RegPairs == { << "A", NONE >>, << "A", SHIFT >> }
Chunks == { <<65>>, <<97>>, <<98>> }

VARIABLES
  stdlib,                  \* the standard library of the build
  handle_count,            \* static std::atomic<callback_handle_t> of get_new_handle
  exit_,                   \* static std::atomic_bool KeyboardHandlerUnixImpl::exit_
  old_term_settings_,      \* static struct termios
  old_sigint_handler_,     \* static signal_handler_type
  term,                    \* the mode of the terminal device
  sigint,                  \* the SIGINT disposition of the process
  life,                    \* per handler: "unborn", "alive", "joining", "dead", "failed"
  is_init_succeed_,        \* per handler
  install_signal_handler_, \* per handler
  callbacks_,              \* per handler: the multimap, in iteration order
  callbacks_mutex_,        \* per handler: "free" or the thread that holds it
  thread_exception_ptr,    \* per handler: TRUE when an exception is stored
  pc,                      \* per handler: where key_handler_thread_ is: "none" (not
                           \* started), "read", "call", "restore", "done"
  buff,                    \* per handler: the reader's buffer
  read_bytes,              \* per handler: what read() returned in this iteration
  pressed,                 \* per handler: (pressed_key_code, key_modifiers) of this
                           \* iteration
  it,                      \* per handler: position of the iterator in the range
  invoked,                 \* per handler: handles invoked in the running dispatch
  tty,                     \* per handler: what isatty() answered in the constructor
  call,                    \* the application's last call on a registry: the
                           \* operation, the handler, the callback passed and the
                           \* handle returned (add) or passed (delete)
  deleted,                 \* the registered handles that were passed to a
                           \* delete_key_press_callback that has returned
  issued,                  \* the handles returned so far, in the order of the calls
  trial,                   \* a trial of the decoder outside any handler: the byte
                           \* sequence, where it came from and what it decoded to
  status,                  \* the process: "running", or the status it gave _exit
  signals,                 \* the SIGINTs delivered to on_signal so far
  on_signal_pc,            \* where on_signal is: "idle", or "propagate" between the
                           \* restoration and the call of the old handler
  siglog,                  \* what the latest run of on_signal has done, in order
  restores,                \* how often the running session has re-applied
                           \* old_term_settings_ to the terminal
  mode_before,             \* the mode of the terminal when the latest constructor
                           \* on a terminal was entered
  win                      \* the handler of a Windows build: its life, its
                           \* is_init_succeed_, exit_ and thread_exception_ptr, and
                           \* where its key_handler_thread_ is: "none", "poll",
                           \* "dispatch", "done", and which of kbhit_fn and
                           \* sleep_for the thread called last: "none", "poll",
                           \* "sleep"
  , cerr                   \* what the process has written to std::cerr: the set of
                           \* its messages, without their errno and what() texts

vars == << stdlib, handle_count, exit_, old_term_settings_, old_sigint_handler_, term,
           sigint, life, is_init_succeed_, install_signal_handler_, callbacks_,
           callbacks_mutex_, thread_exception_ptr, pc, buff, read_bytes, pressed, it,
           invoked, tty, call, deleted, issued, trial, status, signals, on_signal_pc,
           siglog, restores, mode_before, win, cerr >>

\* the state of the SIGINT handling and of the raw-mode session, and the diagnostics
extra == << status, signals, on_signal_pc, siglog, restores, mode_before, win, cerr >>

\* struct termios, the fields the handler reads or writes
\* (icanon and echo of c_lflag, VMIN and VTIME of c_cc; isig stands for the flags
\* the handler leaves alone)
CookedMode == [icanon |-> TRUE, echo |-> TRUE, isig |-> TRUE, vmin |-> 1, vtime |-> 0]
ZeroMode == [icanon |-> FALSE, echo |-> FALSE, isig |-> FALSE, vmin |-> 0, vtime |-> 0]
NoEchoMode == [icanon |-> TRUE, echo |-> FALSE, isig |-> TRUE, vmin |-> 1, vtime |-> 0]

\* settings built from nothing instead of from the captured ones
RawMode_from_zero(old) == [ZeroMode EXCEPT !.vtime = 1]

\* new_term_settings: c_lflag &= ~(ICANON | ECHO); c_cc[VMIN] = 0; c_cc[VTIME] = 1
RawMode(old) == [old EXCEPT !.icanon = FALSE, !.echo = FALSE, !.vmin = 0, !.vtime = 1]

\* call before the first call, and after a call
NoCall == [op |-> "none", handler |-> 0, callback |-> "none", handle |-> invalid_handle]

Called(op, h, callback, handle) ==
  [op |-> op, handler |-> h, callback |-> callback, handle |-> handle]

\* trial before the first trial
NoTrial == [origin |-> "none", key_code |-> "UNKNOWN", sequence |-> <<>>, decoded |-> <<>>]

\* a KeyboardHandlerWindowsImpl before its constructor
NoWin == [life |-> "unborn", is_init_succeed_ |-> FALSE, exit_ |-> FALSE,
          thread_exception_ptr |-> FALSE, pc |-> "none", last |-> "none"]

\* the process starts with a SIGINT disposition and a terminal mode of its own
Start(disposition, mode) ==
  /\ stdlib \in {"libstdc++", "libc++"}
  /\ handle_count = 0
  /\ exit_ = FALSE
  /\ old_term_settings_ = ZeroMode
  /\ old_sigint_handler_ = "SIG_DFL"
  /\ term = mode
  /\ sigint = disposition
  /\ life = [h \in Handlers |-> "unborn"]
  /\ is_init_succeed_ = [h \in Handlers |-> FALSE]
  /\ install_signal_handler_ = [h \in Handlers |-> FALSE]
  /\ callbacks_ = [h \in Handlers |-> <<>>]
  /\ callbacks_mutex_ = [h \in Handlers |-> "free"]
  /\ thread_exception_ptr = [h \in Handlers |-> FALSE]
  /\ pc = [h \in Handlers |-> "none"]
  /\ buff = [h \in Handlers |-> ZeroBuff]
  /\ read_bytes = [h \in Handlers |-> 0]
  /\ pressed = [h \in Handlers |-> << "UNKNOWN", NONE >>]
  /\ it = [h \in Handlers |-> 1]
  /\ invoked = [h \in Handlers |-> <<>>]
  /\ tty = [h \in Handlers |-> FALSE]
  /\ call = NoCall
  /\ deleted = {}
  /\ issued = <<>>
  /\ trial = NoTrial
  /\ status = "running"
  /\ signals = 0
  /\ on_signal_pc = "idle"
  /\ siglog = <<>>
  /\ restores = 0
  /\ mode_before = mode
  /\ win = NoWin
  /\ cerr = {}

Init == Start("SIG_DFL", CookedMode)

(***************************************************************************)
(* Callback registry: KeyboardHandlerBase.                                 *)
(***************************************************************************)
\* a counter that is read but not advanced
get_new_handle_without_increment(count) == count

\* get_new_handle: handle_count.fetch_add(1) + 1.  The counter is a uint64_t; the
\* model stops at MaxHandles registrations, far below the 2^64 that would wrap it
get_new_handle(count) == count + 1

\* callbacks_.emplace(key, data) on an unordered_multimap: where the new element
\* goes among the elements of an equal key is the library's choice; libstdc++
\* links it in front of them, libc++ behind them
emplace(cbs, entry) ==
  IF stdlib = "libstdc++" THEN << entry >> \o cbs ELSE Append(cbs, entry)

\* an equality that compares the key code alone
KeyEq_code_only(e, key_code, key_modifiers) == e.key_code = key_code

\* KeyAndModifiers::operator==
KeyEq(e, key_code, key_modifiers) ==
  e.key_code = key_code /\ e.key_modifiers = key_modifiers

\* callbacks_.equal_range(KeyAndModifiers{key_code, key_modifiers})
equal_range(cbs, key_code, key_modifiers) ==
  SelectSeq(cbs, LAMBDA e : KeyEq(e, key_code, key_modifiers))

\* a delete that erases nothing, and one that erases the first element whatever
\* its handle
erase_nothing(cbs, handle) == cbs

erase_first(cbs, handle) == IF cbs = <<>> THEN cbs ELSE Tail(cbs)

\* the loop of delete_key_press_callback: erase the first element with the handle
erase_handle(cbs, handle) ==
  LET at == { i \in 1..Len(cbs) : cbs[i].handle = handle }
  IN  IF at = {} THEN cbs
      ELSE LET i == CHOOSE k \in at : \A j \in at : k <= j
           IN  SubSeq(cbs, 1, i - 1) \o SubSeq(cbs, i + 1, Len(cbs))

Handles(cbs) == { cbs[i].handle : i \in 1..Len(cbs) }


\* no mutex at all
lockable_always(h, thread) == TRUE

\* a mutex that its owner may lock again
lockable_by_owner(h, thread) == callbacks_mutex_[h] \in {"free", thread}

\* std::lock_guard<std::mutex> lk(callbacks_mutex_): a std::mutex is not recursive,
\* the lock is taken when no thread holds it, its owner included; a thread that
\* asks for it meanwhile blocks
lockable(h, thread) == callbacks_mutex_[h] = "free"

\* an add that tests only one of the two conditions
rejected_if_uninitialised(h, callback) == ~is_init_succeed_[h]

rejected_if_nullptr(h, callback) == callback = NULLCB

\* if (callback == nullptr || !is_init_succeed_) return invalid_handle;
rejected(h, callback) == callback = NULLCB \/ ~is_init_succeed_[h]

\* KeyboardHandlerBase::add_key_press_callback
add_key_press_callback(h, callback, key_code, key_modifiers) ==
  /\ status = "running"
  /\ life[h] = "alive"
  /\ IF rejected(h, callback)
       THEN /\ call' = Called("add", h, callback, invalid_handle)
            /\ UNCHANGED << handle_count, callbacks_, issued >>
       ELSE /\ lockable(h, "application")
            /\ handle_count < MaxHandles
            /\ handle_count' = get_new_handle(handle_count)
            /\ callbacks_' =
                 [callbacks_ EXCEPT ![h] =
                    emplace(@, [key_code |-> key_code, key_modifiers |-> key_modifiers,
                                handle |-> handle_count', callback |-> callback])]
            /\ call' = Called("add", h, callback, handle_count')
            /\ issued' = Append(issued, handle_count')
  /\ UNCHANGED << stdlib, exit_, old_term_settings_, old_sigint_handler_, term, sigint,
                  life, is_init_succeed_, install_signal_handler_, callbacks_mutex_,
                  thread_exception_ptr, pc, buff, read_bytes, pressed, it, invoked, tty,
                  deleted, trial, extra >>

\* KeyboardHandlerBase::delete_key_press_callback
delete_key_press_callback(h, handle) ==
  /\ status = "running"
  /\ life[h] = "alive"
  /\ lockable(h, "application")
  /\ callbacks_' = [callbacks_ EXCEPT ![h] = erase_handle(@, handle)]
  /\ call' = Called("delete", h, "none", handle)
  /\ deleted' = IF handle \in Handles(callbacks_[h]) THEN deleted \cup {handle}
                ELSE deleted
  /\ UNCHANGED << stdlib, handle_count, exit_, old_term_settings_, old_sigint_handler_,
                  term, sigint, life, is_init_succeed_, install_signal_handler_,
                  callbacks_mutex_, thread_exception_ptr, pc, buff, read_bytes,
                  pressed, it, invoked, tty, issued, trial, extra >>

(***************************************************************************)
(* Construction and destruction: KeyboardHandlerUnixImpl.                  *)
(***************************************************************************)
\* the collaborator functions of the constructor; a function maps each of them to
\* TRUE when it is non-empty
Collaborators == {"read_fn", "isatty_fn", "tcgetattr_fn", "tcsetattr_fn"}
AllGiven == [f \in Collaborators |-> TRUE]

\* a constructor without the checks of its collaborator functions
empty_collaborator_unchecked(fns) == FALSE

\* if (read_fn == nullptr) throw ...; and the same for every other collaborator
\* function of the constructor
empty_collaborator(fns) == \E f \in DOMAIN fns : ~fns[f]

\* a constructor that goes on after a failed tcsetattr
mode_set_unchecked(tcsetattr_ok) == FALSE

\* if (tcsetattr_fn_(stdin_fd_, TCSANOW, &new_term_settings) == -1) throw ...
mode_set_failed(tcsetattr_ok) == ~tcsetattr_ok

\* the constructor; fns says which collaborator functions are given, isatty,
\* tcgetattr_ok and tcsetattr_ok are what they answer
Construct(h, fns, isatty, tcgetattr_ok, tcsetattr_ok, install_signal_handler) ==
  /\ status = "running"
  /\ life[h] = "unborn"
  /\ IF empty_collaborator(fns)
       THEN \* throw std::invalid_argument
            /\ life' = [life EXCEPT ![h] = "failed"]
            /\ UNCHANGED << old_term_settings_, old_sigint_handler_, term, sigint,
                            is_init_succeed_, install_signal_handler_, pc, tty,
                            restores, mode_before >>
       ELSE IF ~isatty
       THEN \* stdin is not a terminal: return, keyboard handling disabled
            /\ life' = [life EXCEPT ![h] = "alive"]
            /\ tty' = [tty EXCEPT ![h] = FALSE]
            /\ UNCHANGED << old_term_settings_, old_sigint_handler_, term, sigint,
                            is_init_succeed_, install_signal_handler_, pc, restores,
                            mode_before >>
       ELSE IF ~tcgetattr_ok
       THEN \* throw std::runtime_error("Error in tcgetattr()")
            /\ life' = [life EXCEPT ![h] = "failed"]
            /\ tty' = [tty EXCEPT ![h] = TRUE]
            /\ mode_before' = term
            /\ UNCHANGED << old_term_settings_, old_sigint_handler_, term, sigint,
                            is_init_succeed_, install_signal_handler_, pc, restores >>
       ELSE /\ tty' = [tty EXCEPT ![h] = TRUE]
            /\ mode_before' = term
            /\ old_term_settings_' = term
            /\ IF install_signal_handler
                 THEN /\ old_sigint_handler_' = sigint
                      /\ sigint' = "on_signal"
                 ELSE UNCHANGED << old_sigint_handler_, sigint >>
            /\ install_signal_handler_' =
                 [install_signal_handler_ EXCEPT ![h] = install_signal_handler]
            /\ IF mode_set_failed(tcsetattr_ok)
                 THEN \* throw std::runtime_error("Error in tcsetattr()")
                      /\ life' = [life EXCEPT ![h] = "failed"]
                      /\ UNCHANGED << term, is_init_succeed_, pc, restores >>
                 ELSE /\ term' = IF tcsetattr_ok THEN RawMode(term) ELSE term
                      /\ is_init_succeed_' = [is_init_succeed_ EXCEPT ![h] = TRUE]
                      /\ pc' = [pc EXCEPT ![h] = "read"]
                      /\ life' = [life EXCEPT ![h] = "alive"]
                      /\ restores' = 0
  /\ cerr' = IF ~empty_collaborator(fns) /\ ~isatty
               THEN cerr \cup {"stdin is not a terminal device. Keyboard handling disabled."}
               ELSE cerr
  /\ UNCHANGED << stdlib, handle_count, exit_, callbacks_, callbacks_mutex_,
                  thread_exception_ptr, buff, read_bytes, pressed, it, invoked, call,
                  deleted, issued, trial, status, signals, on_signal_pc, siglog, win >>

\* the destructor up to the join: put the SIGINT handler back, set exit_
DestroyBegin(h) ==
  /\ status = "running"
  /\ life[h] = "alive"
  /\ IF install_signal_handler_[h]
       THEN \* signal(SIGINT, old_sigint_handler_); if somebody had overridden our
            \* handler, their handler is installed again
            /\ sigint' = IF sigint = "on_signal" THEN old_sigint_handler_ ELSE sigint
            /\ cerr' = IF sigint = "on_signal"
                         THEN cerr
                         ELSE cerr \cup {"Error. Can't return old SIGINT handler, someone override our signal handler"}
       ELSE UNCHANGED << sigint, cerr >>
  /\ exit_' = TRUE
  /\ life' = [life EXCEPT ![h] = "joining"]
  /\ UNCHANGED << stdlib, handle_count, old_term_settings_, old_sigint_handler_, term,
                  is_init_succeed_, install_signal_handler_, callbacks_,
                  callbacks_mutex_, thread_exception_ptr, pc, buff, read_bytes,
                  pressed, it, invoked, tty, call, deleted, issued, trial, status,
                  signals, on_signal_pc, siglog, restores, mode_before, win >>

\* a destructor that does not wait for its thread
joined_unchecked(thread) == TRUE

\* if (key_handler_thread_.joinable()) key_handler_thread_.join(): the destructor
\* goes on when the thread was never started or has ended
joined(thread) == thread \in {"none", "done"}

\* a destructor that rethrows the stored exception without a try block around it
escapes_uncaught(stored) == stored

\* try { std::rethrow_exception(thread_exception_ptr); } catch (const std::exception &)
\* { ... } catch (...) { ... }: whatever is rethrown is caught, nothing leaves the
\* destructor
escapes(stored) == FALSE

\* what the two catch clauses of the destructor write to std::cerr
Caught(stored) == IF stored THEN {"Caught exception"} ELSE {}

\* key_handler_thread_.join() returns (or the thread was never started) and the
\* stored exception is reported.  The object is gone: no operation is enabled on it
\* any more, and the model keeps the last content of its registry.  An exception
\* that left the destructor, which is noexcept, would end the process in
\* std::terminate.
DestroyEnd(h) ==
  /\ status = "running"
  /\ life[h] = "joining"
  /\ joined(pc[h])
  /\ IF escapes(thread_exception_ptr[h])
       THEN /\ status' = "std::terminate"
            /\ UNCHANGED << life, cerr >>
       ELSE /\ life' = [life EXCEPT ![h] = "dead"]
            /\ cerr' = cerr \cup Caught(thread_exception_ptr[h])
            /\ UNCHANGED status
  /\ UNCHANGED << stdlib, handle_count, exit_, old_term_settings_, old_sigint_handler_,
                  term, sigint, is_init_succeed_, install_signal_handler_, callbacks_,
                  callbacks_mutex_, thread_exception_ptr, pc, buff, read_bytes,
                  pressed, it, invoked, tty, call, deleted, issued, trial, signals,
                  on_signal_pc, siglog, restores, mode_before, win >>

(***************************************************************************)
(* Reader loop: the lambda of key_handler_thread_.  read_bytes and the     *)
(* decoded pair are locals of one iteration; buff lives across iterations. *)
(***************************************************************************)
\* a loop that does not test exit_
LoopForever == "read"

\* while (!exit_.load()): the next iteration, or the way out of the loop
LoopOrLeave == IF exit_ THEN "restore" ELSE "read"

\* buff is declared inside the try block: it is gone once the loop is left
BuffAfter(h, to) == IF to = "restore" THEN [buff EXCEPT ![h] = ZeroBuff] ELSE buff

\* the else branch of the loop body up to the first callback: the NUL is written,
\* parse_input decodes the buffer, the lock_guard takes callbacks_mutex_ and
\* equal_range positions the iterator
Decode(h, chunk, n) ==
  /\ lockable(h, "reader")
  /\ buff' = [buff EXCEPT ![h] = StoreChunk(@, chunk, n)]
  /\ read_bytes' = [read_bytes EXCEPT ![h] = n]
  /\ pressed' = [pressed EXCEPT ![h] = parse_input(buff'[h], n)]
  /\ callbacks_mutex_' = [callbacks_mutex_ EXCEPT ![h] = "reader"]
  /\ it' = [it EXCEPT ![h] = 1]
  /\ invoked' = [invoked EXCEPT ![h] = <<>>]
  /\ pc' = [pc EXCEPT ![h] = "call"]

\* a loop that tests exit_ once more after the read and drops the chunk
ReaderReadChunk_unless_exit(h, chunk) ==
  /\ status = "running"
  /\ pc[h] = "read"
  /\ IF exit_
       THEN /\ pc' = [pc EXCEPT ![h] = "restore"]
            /\ buff' = BuffAfter(h, "restore")
            /\ UNCHANGED << read_bytes, pressed, callbacks_mutex_, it, invoked >>
       ELSE Decode(h, chunk, Len(chunk))
  /\ UNCHANGED << stdlib, handle_count, exit_, old_term_settings_, old_sigint_handler_,
                  term, sigint, life, is_init_succeed_, install_signal_handler_,
                  callbacks_, thread_exception_ptr, tty, call, deleted, issued, trial, extra >>

\* read_fn returned a chunk of n > 0 bytes
ReaderReadChunk(h, chunk) ==
  /\ status = "running"
  /\ pc[h] = "read"
  /\ Decode(h, chunk, Len(chunk))
  /\ UNCHANGED << stdlib, handle_count, exit_, old_term_settings_, old_sigint_handler_,
                  term, sigint, life, is_init_succeed_, install_signal_handler_,
                  callbacks_, thread_exception_ptr, tty, call, deleted, issued, trial, extra >>

\* read_fn returned -1 with errno == EAGAIN: nothing is thrown and read_bytes is not
\* 0, so the else branch runs on the buffer as the earlier reads left it
ReaderReadAgain(h) ==
  /\ status = "running"
  /\ pc[h] = "read"
  /\ Decode(h, <<>>, -1)
  /\ UNCHANGED << stdlib, handle_count, exit_, old_term_settings_, old_sigint_handler_,
                  term, sigint, life, is_init_succeed_, install_signal_handler_,
                  callbacks_, thread_exception_ptr, tty, call, deleted, issued, trial, extra >>

\* a loop without the test of read_bytes == 0: the buffer is decoded as it is
ReaderReadTimeout_decodes(h) ==
  /\ status = "running"
  /\ pc[h] = "read"
  /\ Decode(h, <<>>, 0)
  /\ UNCHANGED << stdlib, handle_count, exit_, old_term_settings_, old_sigint_handler_,
                  term, sigint, life, is_init_succeed_, install_signal_handler_,
                  callbacks_, thread_exception_ptr, tty, call, deleted, issued, trial,
                  extra >>

\* read_fn returned 0: the timeout elapsed, nothing to do
ReaderReadTimeout(h) ==
  /\ status = "running"
  /\ pc[h] = "read"
  /\ pc' = [pc EXCEPT ![h] = LoopOrLeave]
  /\ buff' = BuffAfter(h, LoopOrLeave)
  /\ UNCHANGED << stdlib, handle_count, exit_, old_term_settings_, old_sigint_handler_,
                  term, sigint, life, is_init_succeed_, install_signal_handler_,
                  callbacks_, callbacks_mutex_, thread_exception_ptr, read_bytes,
                  pressed, it, invoked, tty, call, deleted, issued, trial, extra >>

\* a loop that stores the exception and goes on reading
ReaderReadError_resumes(h) ==
  /\ status = "running"
  /\ pc[h] = "read"
  /\ thread_exception_ptr' = [thread_exception_ptr EXCEPT ![h] = TRUE]
  /\ UNCHANGED << stdlib, handle_count, exit_, old_term_settings_, old_sigint_handler_,
                  term, sigint, life, is_init_succeed_, install_signal_handler_,
                  callbacks_, callbacks_mutex_, pc, buff, read_bytes, pressed, it,
                  invoked, tty, call, deleted, issued, trial, extra >>

\* read_fn returned -1 with another errno: throw, caught by catch (...)
ReaderReadError(h) ==
  /\ status = "running"
  /\ pc[h] = "read"
  /\ thread_exception_ptr' = [thread_exception_ptr EXCEPT ![h] = TRUE]
  /\ pc' = [pc EXCEPT ![h] = "restore"]
  /\ buff' = BuffAfter(h, "restore")
  /\ UNCHANGED << stdlib, handle_count, exit_, old_term_settings_, old_sigint_handler_,
                  term, sigint, life, is_init_succeed_, install_signal_handler_,
                  callbacks_, callbacks_mutex_, read_bytes, pressed, it, invoked, tty,
                  call, deleted, issued, trial, extra >>

\* the range the dispatch loop of handler h walks
Range(h) == equal_range(callbacks_[h], pressed[h][1], pressed[h][2])

\* it->second.callback(pressed_key_code, key_modifiers); ++it
ReaderCall(h) ==
  /\ status = "running"
  /\ pc[h] = "call"
  /\ it[h] <= Len(Range(h))
  /\ Range(h)[it[h]].callback \in Callbacks
  /\ invoked' = [invoked EXCEPT ![h] = Append(@, Range(h)[it[h]].handle)]
  /\ it' = [it EXCEPT ![h] = @ + 1]
  /\ UNCHANGED << stdlib, handle_count, exit_, old_term_settings_, old_sigint_handler_,
                  term, sigint, life, is_init_succeed_, install_signal_handler_,
                  callbacks_, callbacks_mutex_, thread_exception_ptr, pc, buff,
                  read_bytes, pressed, tty, call, deleted, issued, trial, extra >>

\* it->second.callback(...) is called and the callback is one that calls the
\* registry of its own handler: the reader thread is inside the callback
ReaderEnter(h) ==
  /\ status = "running"
  /\ pc[h] = "call"
  /\ it[h] <= Len(Range(h))
  /\ Range(h)[it[h]].callback \in Reentrant
  /\ invoked' = [invoked EXCEPT ![h] = Append(@, Range(h)[it[h]].handle)]
  /\ pc' = [pc EXCEPT ![h] = "callback"]
  /\ UNCHANGED << stdlib, handle_count, exit_, old_term_settings_, old_sigint_handler_,
                  term, sigint, life, is_init_succeed_, install_signal_handler_,
                  callbacks_, callbacks_mutex_, thread_exception_ptr, buff, read_bytes,
                  pressed, it, tty, call, deleted, issued, trial, extra >>

\* the call the callback makes, on the reader thread: add_key_press_callback with an
\* empty callback returns at its first test; with a callback, and
\* delete_key_press_callback with the callback's own handle, it asks for the mutex.
\* When the call has returned the callback returns, and the loop goes on: ++it
CallbackReenters(h) ==
  /\ status = "running"
  /\ pc[h] = "callback"
  /\ LET callback == Range(h)[it[h]].callback
         own == Range(h)[it[h]].handle
     IN  IF callback = "calls_add_nullptr"
           THEN /\ rejected(h, NULLCB)
                /\ UNCHANGED << handle_count, callbacks_, issued, deleted >>
           ELSE IF callback = "calls_add"
           THEN /\ ~rejected(h, "f")
                /\ lockable(h, "reader")
                /\ handle_count < MaxHandles
                /\ handle_count' = get_new_handle(handle_count)
                /\ callbacks_' =
                     [callbacks_ EXCEPT ![h] =
                        emplace(@, [key_code |-> "A", key_modifiers |-> SHIFT,
                                    handle |-> handle_count', callback |-> "f"])]
                /\ issued' = Append(issued, handle_count')
                /\ UNCHANGED deleted
           ELSE /\ lockable(h, "reader")
                /\ callbacks_' = [callbacks_ EXCEPT ![h] = erase_handle(@, own)]
                /\ deleted' = deleted \cup {own}
                /\ UNCHANGED << handle_count, issued >>
  /\ it' = [it EXCEPT ![h] = @ + 1]
  /\ pc' = [pc EXCEPT ![h] = "call"]
  /\ UNCHANGED << stdlib, exit_, old_term_settings_, old_sigint_handler_, term, sigint,
                  life, is_init_succeed_, install_signal_handler_, callbacks_mutex_,
                  thread_exception_ptr, buff, read_bytes, pressed, invoked, tty, call,
                  trial, extra >>

\* a lock_guard whose destructor is not run when an exception passes
lock_guard_kept(owner) == owner

\* std::lock_guard<std::mutex> lk goes out of scope when the exception unwinds the
\* else branch: the mutex is unlocked
lock_guard_released(owner) == "free"

\* the callback throws: the exception leaves the dispatch loop, the lock_guard
\* releases the mutex, catch (...) stores the exception and the loop is left
ReaderCallThrows(h) ==
  /\ status = "running"
  /\ pc[h] = "call"
  /\ it[h] <= Len(Range(h))
  /\ Range(h)[it[h]].callback \in Throwing
  /\ invoked' = [invoked EXCEPT ![h] = Append(@, Range(h)[it[h]].handle)]
  /\ callbacks_mutex_' = [callbacks_mutex_ EXCEPT ![h] = lock_guard_released(@)]
  /\ thread_exception_ptr' = [thread_exception_ptr EXCEPT ![h] = TRUE]
  /\ pc' = [pc EXCEPT ![h] = "restore"]
  /\ buff' = BuffAfter(h, "restore")
  /\ UNCHANGED << stdlib, handle_count, exit_, old_term_settings_, old_sigint_handler_,
                  term, sigint, life, is_init_succeed_, install_signal_handler_,
                  callbacks_, read_bytes, pressed, it, tty, call, deleted, issued, trial,
                  extra >>

\* a dispatch loop that may be left with callbacks of the range still to call
at_range_second_or_before(h) == TRUE

\* for (auto it = range.first; it != range.second; ++it): the loop is left when it
\* has reached range.second
at_range_second(h) == it[h] > Len(Range(h))

\* it == range.second: the lock_guard is released, the iteration's locals go out of
\* scope and the loop condition is tested
ReaderUnlock(h) ==
  /\ status = "running"
  /\ pc[h] = "call"
  /\ at_range_second(h)
  /\ callbacks_mutex_' = [callbacks_mutex_ EXCEPT ![h] = "free"]
  /\ it' = [it EXCEPT ![h] = 1]
  /\ invoked' = [invoked EXCEPT ![h] = <<>>]
  /\ read_bytes' = [read_bytes EXCEPT ![h] = 0]
  /\ pressed' = [pressed EXCEPT ![h] = << "UNKNOWN", NONE >>]
  /\ pc' = [pc EXCEPT ![h] = LoopOrLeave]
  /\ buff' = BuffAfter(h, LoopOrLeave)
  /\ UNCHANGED << stdlib, handle_count, exit_, old_term_settings_, old_sigint_handler_,
                  term, sigint, life, is_init_succeed_, install_signal_handler_,
                  callbacks_, thread_exception_ptr, tty, call, deleted, issued, trial, extra >>

\* a restoration that re-applies the usual canonical mode, whatever was captured
restore_canonical_mode(tcsetattr_ok) == IF tcsetattr_ok THEN CookedMode ELSE term

\* restore_buffer_mode_for_stdin(): tcsetattr_fn_(fileno(stdin), TCSANOW,
\* &old_term_settings_); the mode of the terminal after the call
restore_buffer_mode_for_stdin(tcsetattr_ok) ==
  IF tcsetattr_ok THEN old_term_settings_ ELSE term

\* after the loop: restore_buffer_mode_for_stdin(), and the thread ends
ReaderRestore(h, tcsetattr_ok) ==
  /\ status = "running"
  /\ pc[h] = "restore"
  /\ term' = restore_buffer_mode_for_stdin(tcsetattr_ok)
  /\ IF tcsetattr_ok
       THEN /\ restores' = restores + 1
            /\ UNCHANGED << thread_exception_ptr, cerr >>
       ELSE IF ~thread_exception_ptr[h]
       THEN \* the failure is thrown as a std::runtime_error and stored
            /\ thread_exception_ptr' = [thread_exception_ptr EXCEPT ![h] = TRUE]
            /\ UNCHANGED << restores, cerr >>
       ELSE \* an exception is stored already: the failure is written out
            /\ cerr' = cerr \cup {"Error in tcsetattr old_term_settings."}
            /\ UNCHANGED << restores, thread_exception_ptr >>
  /\ pc' = [pc EXCEPT ![h] = "done"]
  /\ UNCHANGED << stdlib, handle_count, exit_, old_term_settings_, old_sigint_handler_,
                  sigint, life, is_init_succeed_, install_signal_handler_, callbacks_,
                  callbacks_mutex_, buff, read_bytes, pressed, it, invoked, tty, call,
                  deleted, issued, trial, status, signals, on_signal_pc, siglog,
                  mode_before, win >>

(***************************************************************************)
(* SIGINT: on_signal, the handler the constructor installs.                *)
(***************************************************************************)
\* the old dispositions a process can have: the default one, ignore, and a handler
\* of the application
Dispositions == {"SIG_DFL", "SIG_IGN", "custom_handler"}

\* what restore_buffer_mode_for_stdin() returned, and what was called with what
Restored(ok) == << "restore_buffer_mode_for_stdin", IF ok THEN "true" ELSE "false" >>
CalledOld(signal_number) == << "old_sigint_handler", signal_number >>
Exited(code) == << "_exit", code >>

\* a process that reports success whatever the restoration returned
exit_status_success(restored) == "EXIT_SUCCESS"

\* if (restore_buffer_mode_for_stdin()) _exit(EXIT_SUCCESS); else _exit(EXIT_FAILURE);
exit_status(restored) == IF restored THEN "EXIT_SUCCESS" ELSE "EXIT_FAILURE"

\* an on_signal that calls no old handler
propagates_never(old_sigint_handler) == FALSE

\* (old != SIG_ERR) && (old != SIG_IGN) && (old != SIG_DFL)
propagates(old_sigint_handler) ==
  old_sigint_handler \notin {"SIG_ERR", "SIG_IGN", "SIG_DFL"}

\* an on_signal that leaves the flag as it is
signalled_exit_kept(old) == old

\* exit_ = true; in the branch of an old disposition other than SIG_DFL
signalled_exit(old) == TRUE

\* SIGINT arrives while on_signal is the disposition: on_signal runs up to the call
\* of the old handler.  tcsetattr_ok is what tcsetattr_fn_ answers in
\* restore_buffer_mode_for_stdin.
on_signal(signal_number, tcsetattr_ok) ==
  /\ status = "running"
  /\ sigint = "on_signal"
  /\ on_signal_pc = "idle"
  /\ signals < MaxSignals
  /\ signals' = signals + 1
  /\ term' = restore_buffer_mode_for_stdin(tcsetattr_ok)
  /\ restores' = IF tcsetattr_ok THEN restores + 1 ELSE restores
  /\ IF old_sigint_handler_ = "SIG_DFL"
       THEN /\ status' = exit_status(tcsetattr_ok)
            /\ siglog' = << Restored(tcsetattr_ok), Exited(status') >>
            /\ UNCHANGED << exit_, on_signal_pc >>
       ELSE /\ exit_' = signalled_exit(exit_)
            /\ siglog' = << Restored(tcsetattr_ok) >>
            /\ on_signal_pc' = IF propagates(old_sigint_handler_)
                                 THEN signal_number ELSE "idle"
            /\ UNCHANGED status
  /\ UNCHANGED << stdlib, handle_count, old_term_settings_, old_sigint_handler_, sigint,
                  life, is_init_succeed_, install_signal_handler_, callbacks_,
                  callbacks_mutex_, thread_exception_ptr, pc, buff, read_bytes, pressed,
                  it, invoked, tty, call, deleted, issued, trial, mode_before, win,
                  cerr >>

\* old_sigint_handler(signal_number), and on_signal returns.  What the handler of
\* the application does is its own business; here it returns.
call_old_sigint_handler ==
  /\ status = "running"
  /\ on_signal_pc # "idle"
  /\ siglog' = Append(siglog, CalledOld(on_signal_pc))
  /\ on_signal_pc' = "idle"
  /\ UNCHANGED << stdlib, handle_count, exit_, old_term_settings_, old_sigint_handler_,
                  term, sigint, life, is_init_succeed_, install_signal_handler_,
                  callbacks_, callbacks_mutex_, thread_exception_ptr, pc, buff,
                  read_bytes, pressed, it, invoked, tty, call, deleted, issued, trial,
                  status, signals, restores, mode_before, win, cerr >>

(***************************************************************************)
(* KeyboardHandlerWindowsImpl: constructor, polling loop and destructor.   *)
(* It has no process-wide state but the handle counter of the base class.  *)
(***************************************************************************)
WinCollaborators == {"isatty_fn", "kbhit_fn", "getch_fn"}

\* the constructor
ConstructWindows(fns, isatty) ==
  /\ status = "running"
  /\ win.life = "unborn"
  /\ IF empty_collaborator(fns)
       THEN \* throw std::invalid_argument
            /\ win' = [win EXCEPT !.life = "failed"]
            /\ UNCHANGED cerr
       ELSE IF ~isatty
       THEN \* stdin is not a terminal or console: return, keyboard handling disabled
            /\ win' = [win EXCEPT !.life = "alive"]
            /\ cerr' = cerr \cup {"stdin is not a terminal or console device. Keyboard handling disabled."}
       ELSE /\ win' = [win EXCEPT !.life = "alive", !.is_init_succeed_ = TRUE,
                                  !.pc = "poll"]
            /\ UNCHANGED cerr
  /\ UNCHANGED << stdlib, handle_count, exit_, old_term_settings_, old_sigint_handler_,
                  term, sigint, life, is_init_succeed_, install_signal_handler_,
                  callbacks_, callbacks_mutex_, thread_exception_ptr, pc, buff,
                  read_bytes, pressed, it, invoked, tty, call, deleted, issued, trial,
                  status, signals, on_signal_pc, siglog, restores, mode_before >>

\* while (!exit_.load()) of the polling loop
WinLoopOrLeave == IF win.exit_ THEN "done" ELSE "poll"

\* one step of a Windows handler: it changes win and adds to the diagnostics
WinStep(next, diagnostics) ==
  /\ status = "running"
  /\ win' = next
  /\ cerr' = cerr \cup diagnostics
  /\ UNCHANGED << stdlib, handle_count, exit_, old_term_settings_, old_sigint_handler_,
                  term, sigint, life, is_init_succeed_, install_signal_handler_,
                  callbacks_, callbacks_mutex_, thread_exception_ptr, pc, buff,
                  read_bytes, pressed, it, invoked, tty, call, deleted, issued, trial,
                  status, signals, on_signal_pc, siglog, restores, mode_before >>

\* if (kbhit_fn()): with a key waiting, getch_fn reads it, the key is decoded and
\* the mutex taken; without one the loop condition is tested
WinPoll(kbhit) ==
  /\ win.pc = "poll"
  /\ WinStep([win EXCEPT !.pc = IF kbhit THEN "dispatch" ELSE WinLoopOrLeave,
                         !.last = "poll"], {})

\* a collaborator function or a callback throws: catch (...) stores the exception
\* and the thread ends
WinThrow ==
  /\ win.pc \in {"poll", "dispatch"}
  /\ WinStep([win EXCEPT !.pc = "done", !.thread_exception_ptr = TRUE], {})

\* the callbacks of the range have returned, the thread has slept its 100 ms at
\* the end of the if block (with the mutex still held), the mutex is released and
\* the loop condition is tested
WinDispatched ==
  /\ win.pc = "dispatch"
  /\ WinStep([win EXCEPT !.pc = WinLoopOrLeave, !.last = "sleep"], {})

\* the destructor up to the join
WinDestroyBegin ==
  /\ win.life = "alive"
  /\ WinStep([win EXCEPT !.life = "joining", !.exit_ = TRUE], {})

\* key_handler_thread_.join() returns (or the thread was never started)
WinDestroyEnd ==
  /\ win.life = "joining"
  /\ joined(win.pc)
  /\ ~escapes(win.thread_exception_ptr)   \* the same try block, lines 164-173
  /\ WinStep([win EXCEPT !.life = "dead"], Caught(win.thread_exception_ptr))

(***************************************************************************)
(* The process: application threads construct, use and destroy handlers,   *)
(* each handler's reader thread runs its loop.  The terminal calls of      *)
(* these specifications succeed.                                           *)
(***************************************************************************)
\* handler h holds a raw-mode session: it was initialised and is not yet destroyed
InSession(h) == is_init_succeed_[h] /\ life[h] \in {"alive", "joining"}

\* the handlers are numbered in the order of their construction
InOrder(h) == \A g \in Handlers : g < h => life[g] # "unborn"

\* what the application and the reader threads do, whatever the constructors may do
Run(chunks, keys) ==
  \/ \E h \in Handlers, callback \in Callbacks \cup {NULLCB}, key \in keys :
       add_key_press_callback(h, callback, key[1], key[2])
  \/ \E h \in Handlers, handle \in 0..MaxHandles : delete_key_press_callback(h, handle)
  \/ \E h \in Handlers, chunk \in chunks : ReaderReadChunk(h, chunk)
  \/ \E h \in Handlers : ReaderReadAgain(h)
  \/ \E h \in Handlers : ReaderReadTimeout(h)
  \/ \E h \in Handlers : ReaderCall(h)
  \/ \E h \in Handlers : ReaderUnlock(h)
  \/ \E h \in Handlers : ReaderRestore(h, TRUE)
  \/ \E h \in Handlers : DestroyBegin(h)
  \/ \E h \in Handlers : DestroyEnd(h)

\* One raw-mode session at a time, as the handler's documentation asks of its
\* caller: a handler is constructed on a terminal only while no other session is
\* active.  A handler on a stdin that is no terminal may live beside it.
Next ==
  \/ \E h \in Handlers, isatty \in BOOLEAN :
       /\ InOrder(h)
       /\ isatty => \A g \in Handlers : ~InSession(g)
       /\ Construct(h, AllGiven, isatty, TRUE, TRUE, TRUE)
  \/ \E h \in Handlers : ReaderReadError(h)
  \/ Run(Chunks, RegPairs)

Spec == Init /\ [][Next]_vars

\* Several handlers on the terminal at once; the device delivers 'A', the
\* application registers under (A, SHIFT) and read() does not fail with an errno
\* other than EAGAIN.
NextShared ==
  \/ \E h \in Handlers, isatty \in BOOLEAN :
       /\ InOrder(h)
       /\ Construct(h, AllGiven, isatty, TRUE, TRUE, TRUE)
  \/ Run({ <<65>> }, { << "A", SHIFT >> })

SpecShared == Init /\ [][NextShared]_vars

\* One handler from its construction to its destruction, with everything that can
\* happen to it: the process starts with any SIGINT disposition and the terminal
\* in one of two modes, the collaborator functions may be empty or fail, read()
\* may fail, and SIGINT may arrive while on_signal is installed.  The handler is
\* the Unix one, or the one of a Windows build.
InitSession == \E disposition \in Dispositions, mode \in {CookedMode, NoEchoMode} :
                 Start(disposition, mode)

NextSession ==
  \/ \E fns \in [Collaborators -> BOOLEAN],
        isatty, tcgetattr_ok, tcsetattr_ok, install_signal_handler \in BOOLEAN :
       /\ win.life = "unborn"
       /\ Construct(1, fns, isatty, tcgetattr_ok, tcsetattr_ok, install_signal_handler)
  \/ \E fns \in [WinCollaborators -> BOOLEAN], isatty \in BOOLEAN :
       /\ life[1] = "unborn"
       /\ ConstructWindows(fns, isatty)
  \/ \E kbhit \in BOOLEAN : WinPoll(kbhit)
  \/ WinThrow
  \/ WinDispatched
  \/ WinDestroyBegin
  \/ WinDestroyEnd
  \/ \E callback \in Callbacks : add_key_press_callback(1, callback, "A", SHIFT)
  \/ ReaderReadChunk(1, <<65>>)
  \/ ReaderReadTimeout(1)
  \/ ReaderReadError(1)
  \/ ReaderCall(1)
  \/ ReaderUnlock(1)
  \/ \E tcsetattr_ok \in BOOLEAN : ReaderRestore(1, tcsetattr_ok)
  \/ DestroyBegin(1)
  \/ DestroyEnd(1)
  \/ \E tcsetattr_ok \in BOOLEAN : on_signal("SIGINT", tcsetattr_ok)
  \/ call_old_sigint_handler

SpecSession == InitSession /\ [][NextSession]_vars

\* One handler on the terminal whose callbacks are of every kind: they return, they
\* call the registry of their handler, or they throw; the read and the restoring of
\* the mode can fail.  The device delivers 'A',
\* the application registers under (A, SHIFT).
NextCallbacks ==
  \/ Construct(1, AllGiven, TRUE, TRUE, TRUE, TRUE)
  \/ \E callback \in Callbacks \cup Reentrant \cup Throwing :
       add_key_press_callback(1, callback, "A", SHIFT)
  \/ \E handle \in 1..MaxHandles : delete_key_press_callback(1, handle)
  \/ ReaderReadChunk(1, <<65>>)
  \/ ReaderReadTimeout(1)
  \/ ReaderCall(1)
  \/ ReaderEnter(1)
  \/ CallbackReenters(1)
  \/ ReaderCallThrows(1)
  \/ ReaderReadError(1)
  \/ ReaderUnlock(1)
  \/ \E tcsetattr_ok \in BOOLEAN : ReaderRestore(1, tcsetattr_ok)
  \/ DestroyBegin(1)
  \/ DestroyEnd(1)

SpecCallbacks == Init /\ [][NextCallbacks]_vars

\* The same, with threads that run: a read_fn that was called returns (data, a
\* timeout or an error), a callback that was called returns, the reader thread
\* takes its next step, and a join whose thread has ended returns.
ReadReturns(h) ==
  ReaderReadChunk(h, <<65>>) \/ ReaderReadTimeout(h) \/ ReaderReadError(h)

Fairness ==
  /\ WF_vars(ReadReturns(1))
  /\ WF_vars(ReaderCall(1))
  /\ WF_vars(ReaderUnlock(1))
  /\ WF_vars(\E tcsetattr_ok \in BOOLEAN : ReaderRestore(1, tcsetattr_ok))
  /\ WF_vars(DestroyEnd(1))
  /\ WF_vars(\E kbhit \in BOOLEAN : WinPoll(kbhit))
  /\ WF_vars(WinDispatched)
  /\ WF_vars(WinDestroyEnd)

SpecSessionFair == SpecSession /\ Fairness

(***************************************************************************)
(* The decoder on its own: a byte sequence, reported by                    *)
(* get_terminal_sequence or typed at the terminal, is read into a zeroed   *)
(* buffer and handed to parse_input.                                       *)
(***************************************************************************)
Bytes == 0..255

process == << stdlib, handle_count, exit_, old_term_settings_, old_sigint_handler_, term,
              sigint, life, is_init_succeed_, install_signal_handler_, callbacks_,
              callbacks_mutex_, thread_exception_ptr, pc, buff, read_bytes, pressed, it,
              invoked, tty, call, deleted, issued, extra >>

\* parse_input on the buffer as one read() of the sequence leaves it
Parsed(sequence) ==
  parse_input(StoreChunk(ZeroBuff, sequence, Len(sequence)), Len(sequence))

\* get_terminal_sequence(key_code) is called
Report(key_code) ==
  /\ \E sequence \in get_terminal_sequence(key_code) :
       trial' = [origin |-> "get_terminal_sequence", key_code |-> key_code,
                 sequence |-> sequence, decoded |-> <<>>]
  /\ UNCHANGED process

\* the terminal delivers the byte c, alone or behind the escape byte
Type(c, escaped) ==
  /\ trial' = [origin |-> "terminal", key_code |-> "UNKNOWN",
               sequence |-> IF escaped THEN << ESC, c >> ELSE << c >>,
               decoded |-> <<>>]
  /\ UNCHANGED process

\* parse_input is called on the sequence of the trial
Parse ==
  /\ trial.origin # "none"
  /\ trial.decoded = <<>>
  /\ trial' = [trial EXCEPT !.decoded = Parsed(trial.sequence)]
  /\ UNCHANGED process

NextDecode ==
  \/ \E key_code \in KeyCode : Report(key_code)
  \/ \E c \in Bytes, escaped \in BOOLEAN : Type(c, escaped)
  \/ Parse

SpecDecode == Init /\ [][NextDecode]_vars

\* The decoder on what one read() can return when keys arrive close together or
\* text is pasted: up to MaxChunk bytes, among them NUL (Ctrl+Space), the escape
\* byte, letters of both cases, '[' and '~'.
MaxChunk == 3

ChunkBytes == {0, ESC, 65, 91, 97, 126}

Chunks2 == UNION { [1..n -> ChunkBytes] : n \in 2..MaxChunk }

\* the terminal delivers the bytes of chunk to one read()
TypeChunk(chunk) ==
  /\ trial' = [origin |-> "terminal", key_code |-> "UNKNOWN", sequence |-> chunk,
               decoded |-> <<>>]
  /\ UNCHANGED process

\* the chunk of the last read has been decoded, or nothing was read yet
Decoded == trial.origin = "none" \/ trial.decoded # <<>>

NextChunks ==
  \/ \E c \in Bytes, escaped \in BOOLEAN : Decoded /\ Type(c, escaped)
  \/ \E chunk \in Chunks2 : Decoded /\ TypeChunk(chunk)
  \/ Parse

SpecChunks == Init /\ [][NextChunks]_vars

(***************************************************************************)
(* The decoder of a Windows build on its own: win_key_code_to_enums on the *)
(* pairs getch_fn delivers.  The table DEFAULT_STATIC_KEY_MAP of the       *)
(* Windows build is data of the repository: pairs (inner_code,             *)
(* win_key_code); here the letters and the function keys, with the codes   *)
(* _getch() returns for them.                                              *)
(***************************************************************************)
NOT_A_KEY == -1

E0 == 224

WIN_STATIC_KEY_MAP ==
  [ n \in 1..26 |-> [inner_code |-> KeyCodeEnum[39 + n],
                     win_key_code |-> << 96 + n, NOT_A_KEY >>] ]
  \o
  [ n \in 1..10 |->
      [inner_code |-> << "F1", "F2", "F3", "F4", "F5", "F6", "F7", "F8", "F9", "F10" >>[n],
       win_key_code |-> << 0, 58 + n >>] ]
  \o
  << [inner_code |-> "F11", win_key_code |-> << E0, 133 >>],
     [inner_code |-> "F12", win_key_code |-> << E0, 134 >>] >>

\* key_codes_map_ of the Windows handler after the constructor's emplace loop
win_key_codes_map_ ==
  [ w \in { WIN_STATIC_KEY_MAP[i].win_key_code : i \in 1..Len(WIN_STATIC_KEY_MAP) } |->
      WIN_STATIC_KEY_MAP[CHOOSE i \in 1..Len(WIN_STATIC_KEY_MAP) :
                           /\ WIN_STATIC_KEY_MAP[i].win_key_code = w
                           /\ \A j \in 1..(i - 1) :
                                WIN_STATIC_KEY_MAP[j].win_key_code # w].inner_code ]

\* key_codes_map_.find(win_key_code), UNKNOWN standing for end()
WinFind(pressed_key_code, win_key_code) ==
  IF win_key_code \in DOMAIN win_key_codes_map_
    THEN win_key_codes_map_[win_key_code]
    ELSE pressed_key_code

\* a decoder without the adjustment of CTRL + F1..F10
ctrl_f1_f10_never(first, second) == FALSE

\* if (win_key_code.first == 0 && win_key_code.second >= 94 &&
\*     win_key_code.second <= 103)
ctrl_f1_f10(first, second) == first = 0 /\ second >= 94 /\ second <= 103

\* KeyboardHandlerWindowsImpl::win_key_code_to_enums
win_key_code_to_enums(win_key_code) ==
  LET first0  == win_key_code[1]
      second0 == win_key_code[2]
      c1      == ctrl_f1_f10(first0, second0)
      second1 == IF c1 THEN second0 - 35 ELSE second0
      mods1   == IF c1 THEN ModOr(NONE, CTRL) ELSE NONE
      c2      == first0 = E0 /\ (second1 = 138 \/ second1 = 137)
      second2 == IF c2 THEN second1 - 4 ELSE second1
      mods2   == IF c2 THEN ModOr(mods1, CTRL) ELSE mods1
      c3      == first0 = 0 /\ second2 >= 84 /\ second2 <= 93
      second3 == IF c3 THEN second2 - 25 ELSE second2
      mods3   == IF c3 THEN ModOr(mods2, SHIFT) ELSE mods2
      c4      == first0 = E0 /\ (second3 = 135 \/ second3 = 136)
      second4 == IF c4 THEN second3 - 2 ELSE second3
      mods4   == IF c4 THEN ModOr(mods3, SHIFT) ELSE mods3
      c5      == first0 >= 65 /\ first0 <= 90
      first5  == IF c5 THEN first0 + 32 ELSE first0
      mods5   == IF c5 THEN ModOr(mods4, SHIFT) ELSE mods4
      code5   == WinFind("UNKNOWN", << first5, second4 >>)
      c6      == /\ code5 = "UNKNOWN"
                 /\ second4 = NOT_A_KEY
                 /\ first5 >= 0
                 /\ first5 <= 26
      first6  == IF c6 THEN first5 + 96 ELSE first5
      mods6   == IF c6 THEN ModOr(mods5, CTRL) ELSE mods5
      code6   == IF c6 THEN WinFind(code5, << first6, second4 >>) ELSE code5
  IN  << code6, mods6 >>

\* what the loop puts into win_key_code: ch = getch_fn() alone, or, when ch is 0 or
\* 0xE0, followed by the second ch = getch_fn()
WinKeyCodes ==
  { << ch, NOT_A_KEY >> : ch \in Bytes \ {0, E0} } \cup ({0, E0} \X Bytes)

\* the console delivers a key: the one or two values of getch_fn
Getch(win_key_code) ==
  /\ trial' = [origin |-> "console", key_code |-> "UNKNOWN", sequence |-> win_key_code,
               decoded |-> <<>>]
  /\ UNCHANGED process

\* win_key_code_to_enums is called on the pair of the trial
ParseWindows ==
  /\ trial.origin = "console"
  /\ trial.decoded = <<>>
  /\ trial' = [trial EXCEPT !.decoded = win_key_code_to_enums(trial.sequence)]
  /\ UNCHANGED process

NextWindows ==
  \/ \E win_key_code \in WinKeyCodes : Decoded /\ Getch(win_key_code)
  \/ ParseWindows

SpecWindows == Init /\ [][NextWindows]_vars

(***************************************************************************)
(* The free functions of keyboard_handler_base on their own: the operators *)
(* of KeyModifiers on three operands, and the names of the key codes.      *)
(***************************************************************************)
\* ENUM_KEY_TO_STR_MAP: pairs (inner_code, str), in the order of the table.  The
\* str of GRAVE_ACCENT_SIGN is the one character U+0060, which a string of this
\* language cannot hold; it is written "(grave accent)", a str of no other entry
ENUM_KEY_TO_STR_MAP ==
  << << "UNKNOWN", "UNKNOWN" >>, << "EXCLAMATION_MARK", "!" >>,
     << "QUOTATION_MARK", "QUOTATION_MARK" >>, << "HASHTAG_SIGN", "#" >>,
     << "DOLLAR_SIGN", "&" >>, << "PERCENT_SIGN", "%" >>, << "AMPERSAND", "&" >>,
     << "APOSTROPHE", "'" >>, << "OPENING_PARENTHESIS", "(" >>,
     << "CLOSING_PARENTHESIS", ")" >>, << "STAR", "*" >>, << "PLUS", "+" >>,
     << "COMMA", "," >>, << "DOT", "." >>, << "RIGHT_SLASH", "/" >>,
     << "NUMBER_1", "NUMBER_1" >>, << "NUMBER_2", "NUMBER_2" >>,
     << "NUMBER_3", "NUMBER_3" >>, << "NUMBER_4", "NUMBER_4" >>,
     << "NUMBER_5", "NUMBER_5" >>, << "NUMBER_6", "NUMBER_6" >>,
     << "NUMBER_7", "NUMBER_7" >>, << "NUMBER_8", "NUMBER_8" >>,
     << "NUMBER_9", "NUMBER_9" >>, << "NUMBER_0", "NUMBER_0" >>,
     << "MINUS", "MINUS" >>, << "COLON", ":" >>, << "SEMICOLON", ";" >>,
     << "LEFT_ANGLE_BRACKET", "<" >>, << "EQUAL_SIGN", "EQUAL_SIGN" >>,
     << "RIGHT_ANGLE_BRACKET", ">" >>, << "QUESTION_MARK", "?" >>, << "AT", "@" >>,
     << "A", "a" >>, << "B", "b" >>, << "C", "c" >>, << "D", "d" >>, << "E", "e" >>,
     << "F", "f" >>, << "G", "g" >>, << "H", "h" >>, << "I", "i" >>, << "J", "j" >>,
     << "K", "k" >>, << "L", "l" >>, << "M", "m" >>, << "N", "n" >>, << "O", "o" >>,
     << "P", "p" >>, << "Q", "q" >>, << "R", "r" >>, << "S", "s" >>, << "T", "t" >>,
     << "U", "u" >>, << "V", "v" >>, << "W", "w" >>, << "X", "x" >>, << "Y", "y" >>,
     << "Z", "z" >>, << "LEFT_SQUARE_BRACKET", "[" >>,
     << "BACK_SLASH", "BACK_SLASH" >>, << "RIGHT_SQUARE_BRACKET", "]" >>,
     << "CARET", "^" >>, << "UNDERSCORE_SIGN", "_" >>, << "GRAVE_ACCENT_SIGN", "(grave accent)" >>,
     << "LEFT_CURLY_BRACKET", "{" >>, << "VERTICAL_BAR", "|" >>,
     << "RIGHT_CURLY_BRACKET", "}" >>, << "TILDA", "~" >>,
     << "CURSOR_UP", "CURSOR_UP" >>, << "CURSOR_DOWN", "CURSOR_DOWN" >>,
     << "CURSOR_LEFT", "CURSOR_LEFT" >>, << "CURSOR_RIGHT", "CURSOR_RIGHT" >>,
     << "ESCAPE", "ESCAPE" >>, << "SPACE", "SPACE" >>, << "ENTER", "ENTER" >>,
     << "BACK_SPACE", "BACK_SPACE" >>, << "DELETE_KEY", "DELETE_KEY" >>,
     << "END", "END" >>, << "PG_DOWN", "PG_DOWN" >>, << "PG_UP", "PG_UP" >>,
     << "HOME", "HOME" >>, << "INSERT", "INSERT" >>, << "F1", "F1" >>,
     << "F2", "F2" >>, << "F3", "F3" >>, << "F4", "F4" >>, << "F5", "F5" >>,
     << "F6", "F6" >>, << "F7", "F7" >>, << "F8", "F8" >>, << "F9", "F9" >>,
     << "F10", "F10" >>, << "F11", "F11" >>, << "F12", "F12" >> >>

\* the index of the first entry of the table whose field (1: inner_code, 2: str) is
\* value, 0 when there is none
FirstEntry(field, value) ==
  LET at == { i \in 1..Len(ENUM_KEY_TO_STR_MAP) : ENUM_KEY_TO_STR_MAP[i][field] = value }
  IN  IF at = {} THEN 0 ELSE CHOOSE i \in at : \A j \in at : i <= j

\* enum_key_code_to_str: the str of the first entry with the code, else ""
enum_key_code_to_str(key_code) ==
  IF FirstEntry(1, key_code) = 0 THEN ""
  ELSE ENUM_KEY_TO_STR_MAP[FirstEntry(1, key_code)][2]

\* enum_str_to_key_code: the code of the first entry with the str, else UNKNOWN
enum_str_to_key_code(key_code_str) ==
  IF FirstEntry(2, key_code_str) = 0 THEN "UNKNOWN"
  ELSE ENUM_KEY_TO_STR_MAP[FirstEntry(2, key_code_str)][1]

Modifiers == 0..7

\* three modifier masks are chosen
Operands(a, b, c) ==
  /\ trial' = [origin |-> "KeyModifiers", key_code |-> "UNKNOWN",
               sequence |-> << a, b, c >>, decoded |-> <<>>]
  /\ UNCHANGED process

\* the operators are applied to them: a | b, b | a, (a | b) | c, a | (b | c), a | a,
\* a | NONE, a && b, NONE && a
Operate ==
  /\ trial.origin = "KeyModifiers"
  /\ trial.decoded = <<>>
  /\ LET a == trial.sequence[1]
         b == trial.sequence[2]
         c == trial.sequence[3]
     IN  trial' = [trial EXCEPT !.decoded =
                     << ModOr(a, b), ModOr(b, a), ModOr(ModOr(a, b), c),
                        ModOr(a, ModOr(b, c)), ModOr(a, a), ModOr(a, NONE),
                        ModAnd(a, b), ModAnd(NONE, a) >>]
  /\ UNCHANGED process

\* enum_key_code_to_str(key_code) is called
ToStr(key_code) ==
  /\ trial' = [origin |-> "enum_key_code_to_str", key_code |-> key_code,
               sequence |-> << enum_key_code_to_str(key_code) >>, decoded |-> <<>>]
  /\ UNCHANGED process

\* enum_str_to_key_code is called on the name it returned
ToKeyCode ==
  /\ trial.origin = "enum_key_code_to_str"
  /\ trial.decoded = <<>>
  /\ trial' = [trial EXCEPT !.decoded = << enum_str_to_key_code(trial.sequence[1]) >>]
  /\ UNCHANGED process

NextValues ==
  \/ \E a, b, c \in Modifiers : Operands(a, b, c)
  \/ Operate
  \/ \E key_code \in KeyCode \ {"END_OF_KEY_CODE_ENUM"} : ToStr(key_code)
  \/ ToKeyCode

SpecValues == Init /\ [][NextValues]_vars

(***************************************************************************)
(* Properties of the callback registry.                                    *)
(***************************************************************************)
\* the handles of the callbacks the dispatch of handler h has invoked so far
Invoked(h) == { invoked[h][i] : i \in 1..Len(invoked[h]) }

\* the dispatch loop of handler h has reached range.second
DispatchDone(h) == pc[h] = "call" /\ it[h] > Len(Range(h))

\* the entries of the registry of handler h
Entries(h) == { callbacks_[h][i] : i \in 1..Len(callbacks_[h]) }

\* C1: every handle a successful add_key_press_callback returned is different
\* from invalid_handle and greater than every handle returned before it, on
\* whichever handler and whether or not the earlier handle was deleted since; so
\* no two calls return the same handle.
C1_HandlesIncrease ==
  /\ \A i \in 1..Len(issued) : issued[i] # invalid_handle
  /\ \A i, j \in 1..Len(issued) : i < j => issued[i] < issued[j]
  /\ (call.op = "add" /\ call.handle # invalid_handle) => call.handle = issued[Len(issued)]

\* handle 1 was registered and deleted; the next registration, on handler 2,
\* returned handle 2
C1_Witness ==
  /\ 1 \in deleted
  /\ tty[1]
  /\ call = Called("add", 2, "f", 2)
  /\ Handles(callbacks_[2]) = {2}
  /\ issued = << 1, 2 >>

\* C2: a step of add_key_press_callback with the empty callback returns
\* invalid_handle and leaves every registry and the handle counter as they were,
\* for every handler, key code and modifier set.
C2_EmptyCallbackRejected ==
  [][ \A h \in Handlers, key \in RegPairs :
        add_key_press_callback(h, NULLCB, key[1], key[2]) =>
          /\ call'.handle = invalid_handle
          /\ callbacks_' = callbacks_
          /\ handle_count' = handle_count ]_vars

\* an initialised handler with one registration has just refused the empty callback
C2_Witness ==
  /\ call = Called("add", 1, NULLCB, invalid_handle)
  /\ is_init_succeed_[1]
  /\ Handles(callbacks_[1]) = {1}

\* C3: a handler constructed on a stdin that is no terminal is constructed
\* successfully with is_init_succeed_ false; its registry is empty in every state
\* of its life and a call of add_key_press_callback on it has returned
\* invalid_handle, whatever the callback and the key.
C3_NoTerminalDisabled ==
  \A h \in Handlers :
    (life[h] # "unborn" /\ ~tty[h]) =>
      /\ life[h] # "failed"
      /\ ~is_init_succeed_[h]
      /\ callbacks_[h] = <<>>
      /\ (call.op = "add" /\ call.handler = h) => call.handle = invalid_handle

\* handler 2, on no terminal, has refused a callable while handler 1, on the
\* terminal, holds a registration
C3_Witness ==
  /\ ~tty[2]
  /\ life[2] = "alive"
  /\ call = Called("add", 2, "f", invalid_handle)
  /\ callbacks_[1] # <<>>

\* C4: a callback invoked by a dispatch is never one whose handle was passed to
\* a delete_key_press_callback that has returned, the reader thread running
\* beside the deleting thread; and a delete_key_press_callback of a handle that
\* was deleted before leaves every registry as it was.
C4_DeletedNeverInvoked ==
  [][ /\ \A h \in Handlers :
           ReaderCall(h) => Range(h)[it[h]].handle \notin deleted
      /\ \A h \in Handlers, handle \in deleted :
           delete_key_press_callback(h, handle) => callbacks_' = callbacks_ ]_vars

\* handler 1 is the only handler on the terminal; handles 1 and 2 were registered
\* on it, both under (A, SHIFT), and handle 1 was deleted, the call of delete
\* being the last call; the dispatch of 'A' has run to its end and invoked
\* handle 2 alone
C4_Witness ==
  /\ ~tty[2]
  /\ life[2] # "unborn"
  /\ deleted = {1}
  /\ call = Called("delete", 1, "none", 1)
  /\ DispatchDone(1)
  /\ read_bytes[1] = 1
  /\ pressed[1] = << "A", SHIFT >>
  /\ invoked[1] = << 2 >>

\* C5: a step of delete_key_press_callback(handle) on handler h leaves the registry
\* of every other handler as it was and removes from the registry of h the entry
\* with that handle and no other: one entry if the handle is in the registry, none
\* if it is not (the invalid handle, a handle never issued, already removed, or
\* issued by another handler).
C5_DeleteRemovesItsEntryOnly ==
  [][ \A h \in Handlers, handle \in 0..MaxHandles :
        delete_key_press_callback(h, handle) =>
          /\ \A g \in Handlers \ {h} : callbacks_'[g] = callbacks_[g]
          /\ callbacks_'[h] = SelectSeq(callbacks_[h], LAMBDA e : e.handle # handle)
          /\ Len(callbacks_[h]) - Len(callbacks_'[h]) =
               IF handle \in Handles(callbacks_[h]) THEN 1 ELSE 0 ]_vars

\* handler 2 was asked to delete handle 1, which handler 1 issued: both handlers
\* still hold their registrations
C5_Witness ==
  /\ call = Called("delete", 2, "none", 1)
  /\ Handles(callbacks_[1]) = {1}
  /\ Handles(callbacks_[2]) = {2}

\* the handles registered on handler h under exactly the pair being dispatched
Matching(h) ==
  { e.handle : e \in { x \in Entries(h) : /\ x.key_code = pressed[h][1]
                                           /\ x.key_modifiers = pressed[h][2] } }

\* C6: a dispatch that has run to its end has invoked every callback registered
\* under the dispatched pair, in the order of their registration (handles grow
\* with the registrations, so: in the order of their handles).
C6_RegistrationOrder ==
  \A h \in Handlers :
    DispatchDone(h) =>
      /\ Invoked(h) = Matching(h)
      /\ \A i, j \in 1..Len(invoked[h]) : i < j => invoked[h][i] < invoked[h][j]

\* C7: a dispatch invokes only callbacks registered under exactly the decoded key
\* code and exactly the decoded modifier set, and when it has run to its end it
\* has invoked every such callback.
C7_ExactMatch ==
  \A h \in Handlers :
    /\ pc[h] = "call" => Invoked(h) \subseteq Matching(h)
    /\ DispatchDone(h) => Matching(h) \subseteq Invoked(h)

\* the dispatch of (A, SHIFT) has run to its end: it invoked handle 2, registered
\* under (A, SHIFT), and not handle 1, registered under (A, NONE)
C7_Witness ==
  /\ DispatchDone(1)
  /\ pressed[1] = << "A", SHIFT >>
  /\ invoked[1] = << 2 >>
  /\ \E e \in Entries(1) : e.handle = 1 /\ e.key_code = "A" /\ e.key_modifiers = NONE

\* C8: each chunk is decoded and dispatched once: a callback is invoked only in
\* the loop iteration whose read() delivered the chunk that is in the buffer.
C8_EachChunkOnce ==
  \A h \in Handlers :
    (pc[h] = "call" /\ invoked[h] # <<>> /\ buff[h][1] # 0) => read_bytes[h] > 0

(***************************************************************************)
(* Properties of the decoder.                                              *)
(***************************************************************************)
\* C9: the sequence get_terminal_sequence reports for a key code other than
\* UNKNOWN and END_OF_KEY_CODE_ENUM is decoded by parse_input to that key code
\* with the modifiers NONE.
C9_SequenceRoundTrip ==
  ( /\ trial.origin = "get_terminal_sequence"
    /\ trial.key_code \notin {"UNKNOWN", "END_OF_KEY_CODE_ENUM"}
    /\ trial.decoded # <<>> )
  => trial.decoded = << trial.key_code, NONE >>

\* the five-byte sequence reported for F12 was decoded to (F12, NONE)
C9_Witness ==
  /\ trial.origin = "get_terminal_sequence"
  /\ trial.key_code = "F12"
  /\ Len(trial.sequence) = 5
  /\ trial.decoded = << "F12", NONE >>

\* C10: the escape byte followed by one byte c is decoded to the key code the
\* byte c alone is decoded to, with the modifiers of that decoding and ALT.
C10_EscapeAddsAlt ==
  ( /\ trial.origin = "terminal"
    /\ Len(trial.sequence) = 2
    /\ trial.decoded # <<>> )
  => LET alone == Parsed(<< trial.sequence[2] >>)
     IN  /\ trial.decoded[1] = alone[1]
         /\ Bit(alone[2], ALT) = 0
         /\ trial.decoded[2] = alone[2] + ALT

\* ESC 'a' was decoded to (A, ALT)
C10_Witness ==
  /\ trial.origin = "terminal"
  /\ trial.sequence = << ESC, 97 >>
  /\ trial.decoded = << "A", ALT >>

\* the key codes A..Z, in the order of the alphabet
Alphabet == SubSeq(KeyCodeEnum, 40, 65)

\* the trial decoded the one byte c, delivered with no escape byte before it
DecodedByte(c) ==
  /\ trial.origin = "terminal"
  /\ trial.sequence = << c >>
  /\ trial.decoded # <<>>

\* C11 as the spec states it: every one-byte chunk with a value c in 1..26 is
\* decoded to the letter with the code c + 96 and the modifiers CTRL.
C11_EveryControlCode ==
  \A c \in 1..26 : DecodedByte(c) => trial.decoded = << Alphabet[c], CTRL >>

\* C11, amended: a one-byte chunk with a value c in 1..26 that is not itself a
\* sequence of the table is decoded to the letter with the code c + 96 and the
\* modifiers CTRL; one that is a sequence of the table is decoded to the key
\* code of that sequence with the modifiers NONE.
C11_ControlCode ==
  \A c \in 1..26 :
    DecodedByte(c) =>
      trial.decoded = IF << c >> \in DOMAIN key_codes_map_
                        THEN << key_codes_map_[<< c >>], NONE >>
                        ELSE << Alphabet[c], CTRL >>

\* the byte 0x03 was decoded to (C, CTRL)
C11_Witness ==
  /\ DecodedByte(3)
  /\ trial.decoded = << "C", CTRL >>

\* C12: a one-byte chunk holding an upper-case letter 'A'..'Z' is decoded to the
\* key code of that letter with the modifiers SHIFT, and CTRL is not set.
C12_UpperCase ==
  \A n \in 1..26 : DecodedByte(64 + n) => trial.decoded = << Alphabet[n], SHIFT >>

\* the byte 'Z' was decoded to (Z, SHIFT)
C12_Witness ==
  /\ DecodedByte(90)
  /\ trial.decoded = << "Z", SHIFT >>


\* C13: in a raw-mode session, the session of a successfully initialised handler,
\* old_term_settings_ is re-applied to the terminal exactly once, whether the loop
\* ends, the handler is destroyed or SIGINT arrives: never more than once, and once
\* when the reader thread has ended without a stored error.
C13_RestoredExactlyOnce ==
  \A h \in Handlers :
    is_init_succeed_[h] =>
      /\ restores <= 1
      /\ (pc[h] = "done" /\ ~thread_exception_ptr[h]) => restores = 1


\* C14: when the one handler of the process was successfully initialised and has
\* been destroyed, and the restoration of the mode succeeded, the terminal is in the
\* mode it was in when the constructor was entered.
C14_ModeAsBefore ==
  (life[1] = "dead" /\ is_init_succeed_[1] /\ restores >= 1) => term = mode_before

C14_Witness ==
  /\ life[1] = "dead"
  /\ is_init_succeed_[1]
  /\ restores = 1
  /\ mode_before = NoEchoMode
  /\ term = NoEchoMode


\* C15: when SIGINT reaches on_signal and the old disposition is a handler of the
\* application, on_signal first calls restore_buffer_mode_for_stdin() and then the
\* old handler, once and with the signal number: until the old handler is called
\* the run has done the restoration alone, and when on_signal has returned it has
\* done the restoration and the one call, in this order.  A restoration that
\* succeeded has put the terminal into the captured mode.
C15_RestoreThenOldHandler ==
  (old_sigint_handler_ = "custom_handler" /\ siglog # <<>>) =>
    /\ siglog[1] \in {Restored(TRUE), Restored(FALSE)}
    /\ siglog[1] = Restored(TRUE) => term = old_term_settings_
    /\ IF on_signal_pc = "idle"
         THEN siglog = << siglog[1], CalledOld("SIGINT") >>
         ELSE on_signal_pc = "SIGINT" /\ siglog = << siglog[1] >>

C15_Witness ==
  /\ old_sigint_handler_ = "custom_handler"
  /\ siglog = << Restored(TRUE), CalledOld("SIGINT") >>
  /\ term = old_term_settings_


\* C16: when SIGINT reaches on_signal and the old disposition is the default one,
\* on_signal attempts the restoration and the process exits in the same run, with
\* EXIT_SUCCESS when the restoration succeeded (the terminal is then in the
\* captured mode) and with EXIT_FAILURE when it failed; the old handler is not
\* called, and a process that has exited takes no further step.
C16_DefaultDispositionExits ==
  [][/\ status = "running"
     /\ (signals' # signals /\ old_sigint_handler_ = "SIG_DFL") =>
          /\ siglog' \in { << Restored(TRUE), Exited("EXIT_SUCCESS") >>,
                           << Restored(FALSE), Exited("EXIT_FAILURE") >> }
          /\ status' = siglog'[2][2]
          /\ on_signal_pc' = "idle"
          /\ siglog'[1] = Restored(TRUE) => term' = old_term_settings_]_vars

C16_Witness ==
  /\ old_sigint_handler_ = "SIG_DFL"
  /\ status = "EXIT_FAILURE"
  /\ siglog = << Restored(FALSE), Exited("EXIT_FAILURE") >>
  /\ \E h \in Handlers : pc[h] = "call" /\ it[h] <= Len(Range(h))


\* C17: a constructor that is given an empty collaborator function (read_fn,
\* isatty_fn, tcgetattr_fn or tcsetattr_fn on Unix; isatty_fn, kbhit_fn or getch_fn
\* on Windows) fails, and it leaves the terminal mode, the captured mode, the SIGINT
\* disposition, the saved disposition, exit_ and the handle counter as they were;
\* no reader thread is started and the handler is not initialised.
ProcessWide == << term, old_term_settings_, sigint, old_sigint_handler_, exit_,
                 handle_count >>

C17_EmptyCollaboratorFails ==
  [][/\ \A fns \in [Collaborators -> BOOLEAN],
          isatty, tcgetattr_ok, tcsetattr_ok, install_signal_handler \in BOOLEAN :
          ( /\ \E f \in Collaborators : ~fns[f]
            /\ Construct(1, fns, isatty, tcgetattr_ok, tcsetattr_ok,
                         install_signal_handler) ) =>
            /\ life'[1] = "failed"
            /\ pc'[1] = "none"
            /\ ~is_init_succeed_'[1]
            /\ UNCHANGED ProcessWide
     /\ \A fns \in [WinCollaborators -> BOOLEAN], isatty \in BOOLEAN :
          ( /\ \E f \in WinCollaborators : ~fns[f]
            /\ ConstructWindows(fns, isatty) ) =>
            /\ win'.life = "failed"
            /\ win'.pc = "none"
            /\ ~win'.is_init_succeed_
            /\ UNCHANGED ProcessWide]_vars

C17_Witness ==
  /\ life[1] = "failed"
  /\ ~tty[1]
  /\ pc[1] = "none"
  /\ sigint \in Dispositions
  /\ old_term_settings_ = ZeroMode


\* C18: a constructor on a terminal whose tcgetattr or whose tcsetattr fails, fails
\* itself: it starts no reader thread and does not set is_init_succeed_, and a
\* handler whose construction failed has neither of them later.
C18_ModeCallFailureFails ==
  [][/\ \A tcgetattr_ok, tcsetattr_ok, install_signal_handler \in BOOLEAN :
          ( /\ ~tcgetattr_ok \/ ~tcsetattr_ok
            /\ Construct(1, AllGiven, TRUE, tcgetattr_ok, tcsetattr_ok,
                         install_signal_handler) ) =>
            life'[1] = "failed"
     /\ life'[1] = "failed" => (pc'[1] = "none" /\ ~is_init_succeed_'[1])]_vars

C18_Witness ==
  /\ life[1] = "failed"
  /\ tty[1]
  /\ sigint = "on_signal"
  /\ old_term_settings_ = term
  /\ pc[1] = "none"
  /\ ~is_init_succeed_[1]


\* C19: when read() fails with an errno other than EAGAIN the exception is stored
\* and the loop is left; from then on the stored exception stays, through the
\* destruction of the handler, the thread is at its epilogue or has ended, and
\* nothing is read, decoded or dispatched any more; the epilogue's
\* restore_buffer_mode_for_stdin(), when tcsetattr succeeds, puts the terminal into
\* the captured mode.
C19_ReadErrorEndsLoop ==
  [][\A h \in Handlers :
       /\ ReaderReadError(h) => (thread_exception_ptr'[h] /\ pc'[h] = "restore")
       /\ thread_exception_ptr[h] =>
            /\ thread_exception_ptr'[h]
            /\ pc'[h] \in {"restore", "done"}
            /\ UNCHANGED << buff[h], read_bytes[h], pressed[h], it[h], invoked[h] >>
       /\ (thread_exception_ptr[h] /\ ReaderRestore(h, TRUE)) =>
            (term' = old_term_settings_ /\ pc'[h] = "done")]_vars

C19_Witness ==
  /\ thread_exception_ptr[1]
  /\ life[1] = "dead"
  /\ pc[1] = "done"
  /\ restores = 1
  /\ term = mode_before
  /\ callbacks_[1] # <<>>
  /\ signals = 0


\* C20: a destruction that has begun completes, on Unix and on Windows: the join
\* returns and the handler is gone.  The reader thread does not start another read
\* once it has finished the iteration in which the destructor set exit_: after the
\* destructor has begun, a thread that is not at its read does not come back to it.
C20_DestructionCompletes ==
  /\ (life[1] = "joining") ~> (life[1] = "dead")
  /\ (win.life = "joining") ~> (win.life = "dead")
  /\ [][/\ (life[1] = "joining" /\ pc[1] # "read") => pc'[1] # "read"
        /\ (win.life = "joining" /\ win.pc # "poll") => win'.pc # "poll"]_vars

C20_Witness ==
  /\ life[1] = "dead"
  /\ is_init_succeed_[1]
  /\ pc[1] = "done"
  /\ ~thread_exception_ptr[1]
  /\ callbacks_[1] # <<>>
  /\ restores = 1
  /\ signals = 0


\* C21: when the destructor of a handler has returned, its reader thread has ended
\* or was never started, on Unix and on Windows: it is in no read and in no
\* dispatch, and it does not hold the mutex of the registry.
C21_NoThreadAfterDestructor ==
  /\ \A h \in Handlers :
       life[h] = "dead" => (pc[h] \in {"none", "done"} /\ callbacks_mutex_[h] = "free")
  /\ win.life = "dead" => win.pc \in {"none", "done"}

C21_Witness ==
  /\ life[1] = "dead"
  /\ pc[1] = "done"
  /\ callbacks_mutex_[1] = "free"
  /\ exit_
  /\ callbacks_[1] # <<>>


\* C22: a callback that, while the dispatch invokes it, calls add_key_press_callback
\* with a callback or delete_key_press_callback on its own handler never returns
\* from that call: the reader thread stays inside the callback for ever, the mutex
\* stays with the dispatch, and the call changes nothing in the registry.
InCallback(h, kinds) ==
  /\ pc[h] = "callback"
  /\ Range(h)[it[h]].callback \in kinds

C22_ReentrantCallDeadlocks ==
  [][\A h \in Handlers :
       InCallback(h, {"calls_add", "calls_delete"}) =>
         /\ pc'[h] = "callback"
         /\ callbacks_mutex_'[h] = "reader"
         /\ UNCHANGED << callbacks_[h], it[h], invoked[h], handle_count >>]_vars

C22_Witness ==
  /\ InCallback(1, {"calls_delete"})
  /\ callbacks_mutex_[1] = "reader"
  /\ life[1] = "joining"


\* C23: add, delete and dispatch on one handler exclude each other: from the lookup
\* of a key event to the return of its last callback the registry of the handler
\* does not change, so an add or a delete of another thread takes effect before
\* the lookup or after the dispatch, and the callbacks invoked so far are at every
\* moment the first ones of the one range that was looked up.
C23_DispatchExcludesAddAndDelete ==
  [][\A h \in Handlers :
       /\ callbacks_mutex_[h] = "reader" => callbacks_'[h] = callbacks_[h]
       /\ pc'[h] = "call" =>
            LET range == equal_range(callbacks_'[h], pressed'[h][1], pressed'[h][2])
            IN  /\ it'[h] <= Len(range) + 1
                /\ invoked'[h] = [i \in 1..(it'[h] - 1) |-> range[i].handle]]_vars

C23_Witness ==
  /\ pc[1] = "call"
  /\ callbacks_mutex_[1] = "reader"
  /\ Len(Range(1)) = 2
  /\ Len(invoked[1]) = 1
  /\ call.op = "add"
  /\ call.handle = 2


\* C24: the reader thread of a successfully initialised handler stays in its loop,
\* reading and dispatching, as long as the destructor of this handler has not begun
\* and no exception is stored for it, whatever happens to other handlers.
C24_OwnDestructionAloneStops ==
  \A h \in Handlers :
    (is_init_succeed_[h] /\ life[h] = "alive" /\ ~thread_exception_ptr[h]) =>
      pc[h] \in {"read", "call"}


\* C25: a constructor that succeeds on a terminal leaves in old_term_settings_ the
\* mode the terminal was in, and the terminal in that mode with canonical input
\* and echo off, VMIN 0 and VTIME 1 (a read returns after a tenth of a second with
\* nothing read), the other flags as they were.
C25_RawModeFromSnapshot ==
  [][\A install_signal_handler \in BOOLEAN :
       Construct(1, AllGiven, TRUE, TRUE, TRUE, install_signal_handler) =>
         /\ is_init_succeed_'[1]
         /\ old_term_settings_' = term
         /\ ~term'.icanon
         /\ ~term'.echo
         /\ term'.vmin = 0
         /\ term'.vtime = 1
         /\ term'.isig = term.isig]_vars

C25_Witness ==
  /\ is_init_succeed_[1]
  /\ life[1] = "alive"
  /\ pc[1] = "read"
  /\ old_term_settings_ = NoEchoMode
  /\ term = [icanon |-> FALSE, echo |-> FALSE, isig |-> TRUE, vmin |-> 0, vtime |-> 1]


\* C26: a read that returns 0 bytes decodes nothing, invokes no callback and takes
\* no mutex, and it leaves the registries and the buffer's content for the next
\* read as they are; the thread is at its next read, or at its epilogue when exit_
\* is set.
C26_TimeoutDoesNothing ==
  [][\A h \in Handlers :
       ReaderReadTimeout(h) =>
         /\ pc'[h] = IF exit_ THEN "restore" ELSE "read"
         /\ pc'[h] = "read" => buff'[h] = buff[h]
         /\ UNCHANGED << callbacks_, callbacks_mutex_, pressed, read_bytes, it, invoked,
                         handle_count, thread_exception_ptr, term >>]_vars

\* a reader at its read with the key of an earlier read in its buffer and a
\* callback registered for it: a read that returns 0 leaves this very state
C26_Witness ==
  /\ pc[1] = "read"
  /\ ~exit_
  /\ buff[1][1] = 65
  /\ \E i \in 1..Len(callbacks_[1]) : KeyEq(callbacks_[1][i], "A", SHIFT)
  /\ invoked[1] = <<>>
  /\ callbacks_mutex_[1] = "free"


\* the modifiers of a mask, as a set
Bits(x) == { b \in {SHIFT, ALT, CTRL} : Bit(x, b) = 1 }

\* the operators were applied to the operands a, b, c of the trial
Operated == trial.origin = "KeyModifiers" /\ trial.decoded # <<>>

\* what C27 says of operator|: a | b is the union of a and b, and | is commutative,
\* associative and idempotent with NONE as identity
UnionLaws ==
  LET a == trial.sequence[1]
      b == trial.sequence[2]
      r == trial.decoded
  IN  /\ Bits(r[1]) = Bits(a) \cup Bits(b)
      /\ r[1] = r[2]
      /\ r[3] = r[4]
      /\ r[5] = a
      /\ r[6] = a

\* C27 as stated: | is set union, and a && b is true exactly when every bit of b is
\* set in a, and NONE && x is false for every x.
C27_SubsetTest ==
  Operated =>
    /\ UnionLaws
    /\ trial.decoded[7] <=> (Bits(trial.sequence[2]) \subseteq Bits(trial.sequence[1]))
    /\ ~trial.decoded[8]

\* C27: | is set union (commutative, associative, idempotent, NONE its identity);
\* a && b is true exactly when a and b have a modifier in common, which for a
\* single modifier b is the test whether b is set in a; NONE && x is false.
C27_CommonBitTest ==
  Operated =>
    /\ UnionLaws
    /\ trial.decoded[7] <=> (Bits(trial.sequence[1]) \cap Bits(trial.sequence[2]) # {})
    /\ trial.sequence[2] \in {SHIFT, ALT, CTRL} =>
         (trial.decoded[7] <=> (Bits(trial.sequence[2]) \subseteq Bits(trial.sequence[1])))
    /\ ~trial.decoded[8]

C27_Witness ==
  /\ Operated
  /\ trial.sequence = << SHIFT, SHIFT + CTRL, ALT >>
  /\ trial.decoded[1] = SHIFT + CTRL
  /\ trial.decoded[3] = SHIFT + ALT + CTRL
  /\ trial.decoded[7]

\* C28: every key code but END_OF_KEY_CODE_ENUM has a name that is not empty and
\* that enum_str_to_key_code converts back to the key code, so that no two key
\* codes have the same name.
C28_NameRoundTrip ==
  (trial.origin = "enum_key_code_to_str" /\ trial.decoded # <<>>) =>
    /\ trial.sequence[1] # ""
    /\ trial.decoded[1] = trial.key_code

RangeHandles(h) == [i \in 1..Len(Range(h)) |-> Range(h)[i].handle]

\* C30: the callbacks of a handler are called by its reader thread alone, one at a
\* time: a callback is entered only by the thread in its dispatch loop, holding the
\* mutex and not inside another callback, and it is the next one of the range; the
\* thread goes back to read() only from the dispatch loop, when every callback of
\* the range of the key it read has been called and has returned; and the reading
\* of the next key starts a dispatch of its own.
C30_CallbacksInTurn ==
  [][\A h \in Handlers :
       /\ Len(invoked'[h]) > Len(invoked[h])
            => /\ pc[h] = "call"
               /\ callbacks_mutex_[h] = "reader"
               /\ it[h] = Len(invoked[h]) + 1
               /\ invoked'[h] = Append(invoked[h], RangeHandles(h)[it[h]])
       /\ (pc[h] \notin {"none", "read"} /\ pc'[h] = "read")
            => /\ pc[h] = "call"
               /\ invoked[h] = RangeHandles(h)
       /\ (pc[h] = "read" /\ pc'[h] = "call")
            => /\ invoked[h] = <<>>
               /\ invoked'[h] = <<>>
               /\ it'[h] = 1]_vars

\* two callbacks, one of them calling the registry, have been called for one key
\* and have returned; the thread is about to leave the dispatch loop
C30_Witness ==
  /\ pc[1] = "call"
  /\ Len(Range(1)) = 2
  /\ invoked[1] = RangeHandles(1)
  /\ \E i \in 1..2 : Range(1)[i].callback \in Reentrant
  /\ ~exit_

\* C31: in a loop iteration whose read() returned -1 with errno EAGAIN no callback
\* is invoked: the chunk an earlier read left in the buffer is not dispatched again.
C31_WouldBlockDispatchesNothing ==
  \A h \in Handlers : read_bytes[h] < 0 => invoked[h] = <<>>

\* C32: while the terminal is in the raw mode a handler constructed with
\* install_signal_handler = true has set (the handler is alive or in its destructor,
\* and its thread has not yet restored the mode), on_signal is the disposition of
\* SIGINT.
C32_RawModeUnderOnSignal ==
  \A h \in Handlers :
    ( /\ InSession(h)
      /\ install_signal_handler_[h]
      /\ pc[h] # "done"
      /\ term = RawMode(mode_before) )
    => sigint = "on_signal"

\* C33: a constructor that throws leaves the disposition of SIGINT as it found it.
C33_FailedConstructionKeepsSigint ==
  [][\A h \in Handlers :
       (life[h] = "unborn" /\ life'[h] = "failed") => sigint' = sigint]_vars

\* a callback of handler h has thrown during a dispatch: the handles called in
\* that dispatch are still in invoked, the last of them the thrower's
ThrewInDispatch(h) == thread_exception_ptr[h] /\ invoked[h] # <<>>

SignalledOn == signals > 0 /\ old_sigint_handler_ \in {"SIG_IGN", "custom_handler"}

\* C35: a SIGINT received with the old disposition SIG_IGN or a handler of the
\* application leaves the process running and the handler object as it is, and
\* sets exit_; from then on the reader thread begins no new iteration of its loop
\* (it can only finish the one it is in), and add_key_press_callback on the living
\* handler is still possible (once a dispatch in progress has released the mutex)
\* and returns a valid handle that is registered.
C35_SignalStopsReaderOnly ==
  [][\A h \in Handlers :
       /\ (signals' > signals /\ old_sigint_handler_ \in {"SIG_IGN", "custom_handler"})
            => /\ status' = "running"
               /\ exit_'
               /\ life' = life
               /\ is_init_succeed_' = is_init_succeed_
       /\ SignalledOn
            => /\ exit_ /\ exit_'
               /\ status' = "running"
               /\ pc'[h] = "read" => pc[h] = "read"
               /\ (pc[h] = "call" /\ pc'[h] # "call") => pc'[h] = "restore"
               /\ ( /\ life[h] = "alive" /\ is_init_succeed_[h]
                     /\ handle_count < MaxHandles /\ lockable(h, "application") )
                    => ENABLED add_key_press_callback(h, "f", "A", SHIFT)
               /\ add_key_press_callback(h, "f", "A", SHIFT)
                    => /\ call'.handle # invalid_handle
                       /\ call'.handle \in Handles(callbacks_'[h])]_vars

\* after such a SIGINT the thread has ended, the object is alive, and a callback
\* is registered
C35_Witness ==
  /\ SignalledOn
  /\ status = "running"
  /\ pc[1] = "done"
  /\ life[1] = "alive"
  /\ is_init_succeed_[1]
  /\ call.op = "add"
  /\ call.handle \in Handles(callbacks_[1])

\* the reader thread of handler h takes a step
ReaderSteps(h) ==
  << pc[h], buff[h], read_bytes[h], pressed[h], it[h], invoked[h] >>' #
  << pc[h], buff[h], read_bytes[h], pressed[h], it[h], invoked[h] >>

\* C36: once exit_ is set the thread never comes back to read(): the read it is in
\* (or about to begin) is its last.  A chunk that read returns is still taken,
\* decoded and dispatched: the thread leaves the dispatch only when every callback
\* of the range has been called (or one has thrown), and a callback that is running
\* returns into the dispatch loop.
C36_LastReadIsDispatched ==
  [][\A h \in Handlers :
       exit_ =>
         /\ pc'[h] = "read" => (pc[h] = "read" /\ ~ReaderSteps(h))
         /\ (pc[h] = "read" /\ lockable(h, "reader"))
              => ENABLED (ReaderReadChunk(h, <<65>>) /\ pc'[h] = "call")
         /\ (pc[h] = "read" /\ pc'[h] = "call")
              => /\ read_bytes'[h] > 0 => pressed'[h] = parse_input(buff'[h], read_bytes'[h])
                 /\ invoked'[h] = <<>>
         /\ (pc[h] = "call" /\ pc'[h] \notin {"call", "callback"})
              => \/ pc'[h] = "restore" /\ invoked[h] = RangeHandles(h)
                 \/ pc'[h] = "restore" /\ thread_exception_ptr'[h]
         /\ pc[h] = "callback" => pc'[h] \in {"callback", "call"}]_vars

\* the destructor has set exit_ and waits; the chunk of the read that was in flight
\* has been dispatched to both callbacks of its range
C36_Witness ==
  /\ exit_
  /\ life[1] = "joining"
  /\ pc[1] = "call"
  /\ read_bytes[1] = 1
  /\ Len(Range(1)) = 2
  /\ invoked[1] = RangeHandles(1)

\* C37: with alt, shift and ctrl the steps of the decoder that apply to the chunk
\* and stripped, folded and mapped the chunk after them: a chunk that neither as
\* folded nor as mapped is a sequence of the table is decoded to UNKNOWN with the
\* modifiers of the steps that applied, and a key code other than UNKNOWN is
\* returned only for a chunk that as folded, or else as mapped, is a sequence of
\* the table, and is the key code of that sequence.
C37_ExactMatchOrUnknown ==
  trial.decoded # <<>> =>
    LET chunk    == trial.sequence
        alt      == Len(chunk) = 2 /\ chunk[1] = ESC
        stripped == IF alt THEN << chunk[2] >> ELSE chunk
        shift    == Len(stripped) = 1 /\ stripped[1] \in 65..90
        folded   == IF shift THEN << stripped[1] + 32 >> ELSE stripped
        direct   == folded \in DOMAIN key_codes_map_
        ctrl     == ~direct /\ Len(folded) = 1 /\ folded[1] \in 0..26
        mapped   == << folded[1] + 96 >>
        accumulated == (IF alt THEN ALT ELSE NONE) + (IF shift THEN SHIFT ELSE NONE)
                       + (IF ctrl THEN CTRL ELSE NONE)
    IN  /\ trial.decoded[2] = accumulated
        /\ trial.decoded[1] =
             IF direct THEN key_codes_map_[folded]
             ELSE IF ctrl /\ mapped \in DOMAIN key_codes_map_ THEN key_codes_map_[mapped]
             ELSE "UNKNOWN"

\* C38: parse_input never returns SHIFT together with CTRL, and it returns the
\* modifiers NONE for every chunk of more than two bytes and for every chunk of
\* two bytes that does not begin with the escape byte.
C38_OneModifierAtMost ==
  trial.decoded # <<>> =>
    /\ ~(Bit(trial.decoded[2], SHIFT) = 1 /\ Bit(trial.decoded[2], CTRL) = 1)
    /\ Len(trial.sequence) > 2 => trial.decoded[2] = NONE
    /\ (Len(trial.sequence) = 2 /\ trial.sequence[1] # ESC) => trial.decoded[2] = NONE

\* the three bytes ESC '[' 'A' were decoded to (CURSOR_UP, NONE)
C38_Witness ==
  /\ trial.sequence = << ESC, 91, 65 >>
  /\ trial.decoded = << "CURSOR_UP", NONE >>

\* C39: the thread of a Windows handler that is about to call kbhit_fn has slept
\* since its previous call of kbhit_fn.
C39_SleepsBetweenPolls == win.pc = "poll" => win.last # "poll"

\* C40: win_key_code_to_enums returns for (0, s) with s in 94..103 the key code of
\* (0, s - 35) with the modifiers CTRL, for (0, s) with s in 84..93 the key code
\* of (0, s - 25) with SHIFT, for (0xE0, 137) and (0xE0, 138) the key code of
\* (0xE0, s - 4) with CTRL, for (0xE0, 135) and (0xE0, 136) the key code of
\* (0xE0, s - 2) with SHIFT; and for no pair both CTRL and SHIFT.
C40_ModifiedFunctionKeys ==
  (trial.origin = "console" /\ trial.decoded # <<>>) =>
    LET first  == trial.sequence[1]
        second == trial.sequence[2]
        plain(s) == win_key_code_to_enums(<< first, s >>)
    IN  /\ (first = 0 /\ second \in 94..103)
             => plain(second - 35)[2] = NONE
                /\ trial.decoded = << plain(second - 35)[1], CTRL >>
        /\ (first = 0 /\ second \in 84..93)
             => plain(second - 25)[2] = NONE
                /\ trial.decoded = << plain(second - 25)[1], SHIFT >>
        /\ (first = E0 /\ second \in {137, 138})
             => plain(second - 4)[2] = NONE
                /\ trial.decoded = << plain(second - 4)[1], CTRL >>
        /\ (first = E0 /\ second \in {135, 136})
             => plain(second - 2)[2] = NONE
                /\ trial.decoded = << plain(second - 2)[1], SHIFT >>
        /\ ~(Bit(trial.decoded[2], SHIFT) = 1 /\ Bit(trial.decoded[2], CTRL) = 1)

\* the pair (0, 94) was decoded to (F1, CTRL)
C40_Witness ==
  /\ trial.origin = "console"
  /\ trial.sequence = << 0, 94 >>
  /\ trial.decoded = << "F1", CTRL >>

=============================================================================
